---- MODULE Spec2Model ----
(***************************************************************************)
(* Model of the prompt optimization engine (src/src/optimizer.ts) and of   *)
(* the optimize_prompt entry points that drive it (src/src/index.ts,       *)
(* src/src/cli.ts).                                                        *)
(*                                                                         *)
(* Numbers.  Scores are kept in thousandths: the code's 0.72 is 720 here,  *)
(* convergenceThreshold 0.02 is 20, targetScore 0.95 is 950.  A criterion  *)
(* value v with weight w contributes (v / 10) * w, i.e. v * (100 * w)      *)
(* thousandths, which is an integer for every integer v.                   *)
(*                                                                         *)
(* Text.  A prompt is a sequence of literal fragments: the text the caller *)
(* or a generation call supplied, followed by the suffixes the pattern     *)
(* library appended.  What a fragment contains is tabulated in Fragments.  *)
(***************************************************************************)
EXTENDS Integers, Sequences, FiniteSets, TLC

\* ------------------------------------------------------------------ bounds

\* Largest maxIterations a library caller configures an instance with.
MaxIterations == 2

\* The longest score sequence handed to a direct checkConvergence call
\* (the recorded examples apart).
MaxScores == 4

\* record_feedback is not called on a record whose observation_count has
\* reached this.
MaxObservations == 3

\* ------------------------------------------------------------------ text

\* Texts callers hand to optimize / scorePrompt.
P_VAGUE == "Write code"
P_FULL == "Requirements: first think through the context, then respond with JSON."
P_STEPS == "1. Parse the input step by step"
P_PRESENT == "Step 1. First, analyze the data step by step.\nRequirements:\n- Be specific\nFormat your response as JSON."

\* A prompt that asks for steps in upper case only.
P_UPPER == "EXPLAIN THE OPTIONS STEP BY STEP"

\* Text a generation call may return, free of surrounding white space.
CAND_TEXT == "Write a Python function that sorts a list; respond with only the code and explain the first edge case."
RAG_TEXT == "Write a typed, documented sorting function and handle empty lists."

\* A generated text shorter than any prompt passed in.
SHORT_TEXT == "Sort."

\* CAND_TEXT as a model may send it, with white space around it.
PADDED_TEXT == "  Write a Python function that sorts a list; respond with only the code and explain the first edge case.\n"

\* The suffixes of IMPROVEMENT_PATTERNS[i].apply: `${p}\n\n<sentence>`.
SFX_STRUCTURE == "\n\nProvide your response in a structured format with clear sections."
SFX_COT == "\n\nThink through this step by step, showing your reasoning."
SFX_CONSTRAINTS == "\n\nRequirements:\n- Be specific and precise\n- Support claims with evidence\n- Stay focused on the core question"
SFX_FORMAT == "\n\nFormat your response clearly with headers where appropriate."
SFX_CONTEXT == "\n\nConsider relevant context and background information."

\* For every fragment: its length in UTF-16 units, the needles it contains
\* as written (has), the needles its toLowerCase() contains (lower), and
\* whether /\d\./ matches it (digitDot).
Fragments ==
    (P_VAGUE :> [len |-> 10, has |-> {}, lower |-> {}, digitDot |-> FALSE])
 @@ (P_FULL :> [len |-> 70, has |-> {"first", "Requirements"},
                lower |-> {"think through", "respond with", "context"},
                digitDot |-> FALSE])
 @@ (P_STEPS :> [len |-> 31, has |-> {"1.", "step"},
                 lower |-> {"step by step"}, digitDot |-> TRUE])
 @@ (P_PRESENT :> [len |-> 103, has |-> {"1.", "step", "Requirements", "\n"},
                   lower |-> {"step by step", "format"}, digitDot |-> TRUE])
 @@ (P_UPPER :> [len |-> 32, has |-> {}, lower |-> {"step by step"},
                 digitDot |-> FALSE])
 @@ (CAND_TEXT :> [len |-> 102, has |-> {"first"}, lower |-> {"respond with"},
                   digitDot |-> FALSE])
 @@ (SHORT_TEXT :> [len |-> 5, has |-> {}, lower |-> {}, digitDot |-> FALSE])
 @@ (RAG_TEXT :> [len |-> 66, has |-> {}, lower |-> {}, digitDot |-> FALSE])
 @@ (SFX_STRUCTURE :> [len |-> 67, has |-> {"\n"}, lower |-> {"format"},
                       digitDot |-> FALSE])
 @@ (SFX_COT :> [len |-> 58, has |-> {"step", "\n"},
                 lower |-> {"step by step", "think through"},
                 digitDot |-> FALSE])
 @@ (SFX_CONSTRAINTS :> [len |-> 108, has |-> {"Requirements", "\n"},
                         lower |-> {}, digitDot |-> FALSE])
 @@ (SFX_FORMAT :> [len |-> 62, has |-> {"\n"}, lower |-> {"format"},
                    digitDot |-> FALSE])
 @@ (SFX_CONTEXT :> [len |-> 55, has |-> {"\n"},
                     lower |-> {"format", "context", "background"},
                     digitDot |-> FALSE])

\* String.prototype.includes on a prompt.
Includes(p, needle) == \E i \in 1..Len(p) : needle \in Fragments[p[i]].has

\* p.toLowerCase().includes(needle)
LowerIncludes(p, needle) == \E i \in 1..Len(p) : needle \in Fragments[p[i]].lower

\* p.match(/\d\./)
MatchesDigitDot(p) == \E i \in 1..Len(p) : Fragments[p[i]].digitDot

\* p.length
RECURSIVE Length(_)
Length(p) == IF p = <<>> THEN 0 ELSE Fragments[Head(p)].len + Length(Tail(p))

\* The prompts callers pass in.
Prompts == {<<P_VAGUE>>, <<P_FULL>>, <<P_STEPS>>}

\* ------------------------------------------------------------------ config

\* DEFAULT_CONFIG (scores in thousandths).
DEFAULT_CONFIG ==
    [maxIterations |-> 10, targetScore |-> 950,
     convergenceThreshold |-> 20, convergenceWindow |-> 3]

\* Variant: the weights of completeness and structure are exchanged.
EVALUATION_CRITERIA_Exchanged ==
    [clarity |-> 25, specificity |-> 25, completeness |-> 15,
     structure |-> 20, effectiveness |-> 15]

\* EVALUATION_CRITERIA: weight * 100 per criterion, in declaration order.
EVALUATION_CRITERIA ==
    [clarity |-> 25, specificity |-> 25, completeness |-> 20,
     structure |-> 15, effectiveness |-> 15]

CriteriaOrder ==
    <<"clarity", "specificity", "completeness", "structure", "effectiveness">>

Criteria == {CriteriaOrder[i] : i \in 1..Len(CriteriaOrder)}

\* ------------------------------------------------------------------ patterns

\* IMPROVEMENT_PATTERNS, in declaration order: name and appended suffix.
IMPROVEMENT_PATTERNS ==
    << [name |-> "add_structure", suffix |-> SFX_STRUCTURE],
       [name |-> "add_chain_of_thought", suffix |-> SFX_COT],
       [name |-> "add_constraints", suffix |-> SFX_CONSTRAINTS],
       [name |-> "add_output_format", suffix |-> SFX_FORMAT],
       [name |-> "add_context_request", suffix |-> SFX_CONTEXT] >>

\* pattern.check(p)
PatternCheck(name, p) ==
    CASE name = "add_structure" ->
           ~Includes(p, "1.") /\ ~Includes(p, "step") /\ ~Includes(p, "first")
      [] name = "add_chain_of_thought" ->
           ~LowerIncludes(p, "step by step") /\ ~LowerIncludes(p, "think through")
      [] name = "add_constraints" ->
           Length(p) < 150 /\ ~Includes(p, "Requirements")
      [] name = "add_output_format" ->
           ~LowerIncludes(p, "format") /\ ~LowerIncludes(p, "respond with")
      [] name = "add_context_request" ->
           ~LowerIncludes(p, "context") /\ ~LowerIncludes(p, "background")

\* Variant: apply replaces the text by the pattern's sentence.
PatternApplyReplacing(pattern, p) == <<pattern.suffix>>

\* Variant: apply leaves the text as it is.
PatternApplyNothing(pattern, p) == p

\* pattern.apply(p)
PatternApply(pattern, p) == Append(p, pattern.suffix)

\* Variant: every check is made on the prompt as passed in, not on the text
\* rewritten so far.
RECURSIVE ApplyFromOriginal(_, _, _)
ApplyFromOriginal(i, improved, applied) ==
    IF i > Len(IMPROVEMENT_PATTERNS)
    THEN [improved |-> improved, applied |-> applied]
    ELSE LET pattern == IMPROVEMENT_PATTERNS[i]
             prompt == SubSeq(improved, 1, Len(improved) - Len(applied))
         IN IF PatternCheck(pattern.name, prompt)
            THEN ApplyFromOriginal(i + 1, PatternApply(pattern, improved),
                                   Append(applied, pattern.name))
            ELSE ApplyFromOriginal(i + 1, improved, applied)

\* applyPatterns: the loop over IMPROVEMENT_PATTERNS from index i on, with
\* the running text and the names applied so far.
RECURSIVE ApplyFrom(_, _, _)
ApplyFrom(i, improved, applied) ==
    IF i > Len(IMPROVEMENT_PATTERNS)
    THEN [improved |-> improved, applied |-> applied]
    ELSE LET pattern == IMPROVEMENT_PATTERNS[i]
         IN IF PatternCheck(pattern.name, improved)
            THEN ApplyFrom(i + 1, PatternApply(pattern, improved),
                           Append(applied, pattern.name))
            ELSE ApplyFrom(i + 1, improved, applied)

applyPatterns(prompt) == ApplyFrom(1, prompt, <<>>)

\* getSuggestions(prompt): one suggestion, of the pattern's name as type,
\* per pattern whose check holds on the prompt as passed in.
getSuggestions(prompt) ==
    LET fits == SelectSeq(IMPROVEMENT_PATTERNS,
                          LAMBDA pattern : PatternCheck(pattern.name, prompt))
    IN [i \in 1..Len(fits) |-> [type |-> fits[i].name]]

\* The prompts handed to a direct applyPatterns call: callers' prompts,
\* generated texts, and what applyPatterns made of them.
PatternInputs ==
    LET texts == Prompts \cup {<<P_PRESENT>>, <<P_UPPER>>, <<CAND_TEXT>>, <<RAG_TEXT>>}
    IN texts \cup {applyPatterns(p).improved : p \in texts}

\* ------------------------------------------------------------------ scoring

\* What the judge call (openai.chat.completions.create in scorePrompt) can
\* come back with.  kind is the shape of response.choices[0]?.message?.content:
\*   reject        the request itself rejects
\*   no_content    content is null / undefined (or choices is empty)
\*   empty_string  content is ""
\*   not_json      text JSON.parse throws on, e.g. "This is not JSON"
\*   json_null     the text "null"
\*   json_object   a JSON object; fields holds its criterion members and
\*                 reasoning its reasoning member (<<>> when absent)
Resp(kind, fields, reasoning) ==
    [kind |-> kind, fields |-> fields, reasoning |-> reasoning]

AllCriteria(v) == [c \in Criteria |-> v]

R_REJECT == Resp("reject", <<>>, <<>>)
R_NO_CONTENT == Resp("no_content", <<>>, <<>>)
R_EMPTY_STRING == Resp("empty_string", <<>>, <<>>)
R_NOT_JSON == Resp("not_json", <<>>, <<>>)
R_JSON_NULL == Resp("json_null", <<>>, <<>>)
R_EMPTY_OBJECT == Resp("json_object", <<>>, <<>>)
R_GOOD ==
    Resp("json_object",
         [clarity |-> 8, specificity |-> 7, completeness |-> 6,
          structure |-> 8, effectiveness |-> 7],
         <<"Good prompt with clear structure">>)
R_PERFECT == Resp("json_object", AllCriteria(10), <<"Excellent clarity">>)
R_ZERO == Resp("json_object", AllCriteria(0), <<"Unusable">>)
R_PARTIAL ==
    Resp("json_object", [clarity |-> 8, specificity |-> 7], <<"Partial">>)
R_OVER == Resp("json_object", AllCriteria(20), <<"Off the scale">>)
R_NEGATIVE == Resp("json_object", AllCriteria(-5), <<"Below the scale">>)

JudgeResponses ==
    {R_REJECT, R_NO_CONTENT, R_EMPTY_STRING, R_NOT_JSON, R_JSON_NULL,
     R_EMPTY_OBJECT, R_GOOD, R_PERFECT, R_ZERO, R_PARTIAL, R_OVER, R_NEGATIVE}

\* JSON.parse(response.choices[0]?.message?.content || '{}'):
\* ok = FALSE when it throws; isNull when it yields null.
JSONParse(resp) ==
    CASE resp.kind \in {"no_content", "empty_string"} ->
           [ok |-> TRUE, isNull |-> FALSE, fields |-> <<>>, reasoning |-> <<>>]
      [] resp.kind = "not_json" ->
           [ok |-> FALSE, isNull |-> FALSE, fields |-> <<>>, reasoning |-> <<>>]
      [] resp.kind = "json_null" ->
           [ok |-> TRUE, isNull |-> TRUE, fields |-> <<>>, reasoning |-> <<>>]
      [] OTHER ->
           [ok |-> TRUE, isNull |-> FALSE, fields |-> resp.fields,
            reasoning |-> resp.reasoning]

\* evaluation[criterion] || 0
CriterionValue(fields, criterion) ==
    IF criterion \in DOMAIN fields THEN fields[criterion] ELSE 0

\* The loop `weightedScore += (score / 10) * weight` from criterion i on.
RECURSIVE WeightedFrom(_, _)
WeightedFrom(i, fields) ==
    IF i > Len(CriteriaOrder) THEN 0
    ELSE CriterionValue(fields, CriteriaOrder[i])
           * EVALUATION_CRITERIA[CriteriaOrder[i]]
         + WeightedFrom(i + 1, fields)

WeightedScore(fields) == WeightedFrom(1, fields)

\* quickHeuristicFallback
quickHeuristicFallback(prompt) ==
    LET length == Length(prompt)
        score == 500
                 + (IF length > 50 /\ length < 500 THEN 100 ELSE 0)
                 + (IF Includes(prompt, "\n") THEN 50 ELSE 0)
                 + (IF MatchesDigitDot(prompt) THEN 50 ELSE 0)
                 + (IF LowerIncludes(prompt, "step by step") THEN 100 ELSE 0)
    IN IF score < 1000 THEN score ELSE 1000

\* The outcome of one scorePrompt(prompt) call whose judge call came back
\* with resp, on an instance whose lastEvaluation was lastEval:
\*   threw     the promise rejects
\*   value     the number it resolves to
\*   path      "judged" (the try block returned) or "heuristic" (the catch did)
\*   lastEval  this.lastEvaluation afterwards (<<>> is null)
ScoreOutcome(threw, value, path, lastEval) ==
    [threw |-> threw, value |-> value, path |-> path, lastEval |-> lastEval]

\* Variant: the parse failure is not caught.
scorePromptRethrows(prompt, resp, lastEval) ==
    IF resp.kind = "reject" \/ ~JSONParse(resp).ok \/ JSONParse(resp).isNull
    THEN ScoreOutcome(TRUE, 0, "none", lastEval)
    ELSE LET weightedScore == WeightedScore(JSONParse(resp).fields)
         IN ScoreOutcome(FALSE, weightedScore, "judged",
                         << [scores |-> JSONParse(resp).fields,
                             reasoning |-> JSONParse(resp).reasoning,
                             weightedScore |-> weightedScore] >>)

scorePrompt(prompt, resp, lastEval) ==
    IF resp.kind = "reject"
    THEN ScoreOutcome(TRUE, 0, "none", lastEval)
    ELSE LET evaluation == JSONParse(resp)
         IN IF ~evaluation.ok \/ evaluation.isNull
            THEN ScoreOutcome(FALSE, quickHeuristicFallback(prompt),
                              "heuristic", lastEval)
            ELSE LET weightedScore == WeightedScore(evaluation.fields)
                 IN ScoreOutcome(FALSE, weightedScore, "judged",
                                 << [scores |-> evaluation.fields,
                                     reasoning |-> evaluation.reasoning,
                                     weightedScore |-> weightedScore] >>)

\* ------------------------------------------------------------------ convergence

\* scores.slice(-n)
SliceLast(s, n) ==
    IF Len(s) <= n THEN s ELSE SubSeq(s, Len(s) - n + 1, Len(s))

SeqMax(s) == CHOOSE x \in {s[i] : i \in 1..Len(s)} :
                 \A i \in 1..Len(s) : s[i] <= x
SeqMin(s) == CHOOSE x \in {s[i] : i \in 1..Len(s)} :
                 \A i \in 1..Len(s) : s[i] >= x

\* Variant: a range equal to the threshold counts as converged.
checkConvergenceInclusive(scores, cfg) ==
    IF Len(scores) < cfg.convergenceWindow THEN FALSE
    ELSE LET recent == SliceLast(scores, cfg.convergenceWindow)
         IN (SeqMax(recent) - SeqMin(recent)) <= cfg.convergenceThreshold

\* checkConvergence
checkConvergence(scores, cfg) ==
    IF Len(scores) < cfg.convergenceWindow THEN FALSE
    ELSE LET recent == SliceLast(scores, cfg.convergenceWindow)
         IN (SeqMax(recent) - SeqMin(recent)) < cfg.convergenceThreshold

\* Scores a sequence handed to checkConvergence is built from: apart by less
\* than the threshold and by exactly the threshold.
ScoreValues == {750, 760, 770}

\* The sequences the convergence tests pass.
ConvergenceExamples ==
    {<<500, 600>>,
     <<500, 600, 750, 760, 760, 770>>,
     <<500, 600, 700, 800, 900>>,
     <<500, 600, 700, 850, 850, 860>>}

ConvergenceInputs ==
    UNION {[1..n -> ScoreValues] : n \in 0..MaxScores} \cup ConvergenceExamples

\* ------------------------------------------------------------------ generation

\* What a generation call (openai.chat.completions.create in
\* generateCandidate / learnFromSimilar) can come back with:
\*   reject      the request rejects
\*   no_content  content is null / undefined (or choices is empty)
\*   text        content is the string text
Gen(kind, text) == [kind |-> kind, text |-> text]

G_REJECT == Gen("reject", "")
G_NO_CONTENT == Gen("no_content", "")
G_EMPTY == Gen("text", "")
G_BLANK == Gen("text", " \n  ")
G_CANDIDATE == Gen("text", CAND_TEXT)
G_PADDED == Gen("text", PADDED_TEXT)
G_RAG == Gen("text", RAG_TEXT)
G_SHORT == Gen("text", SHORT_TEXT)

GenResponses ==
    {G_REJECT, G_NO_CONTENT, G_EMPTY, G_BLANK, G_CANDIDATE, G_PADDED, G_RAG,
     G_SHORT}

\* String.prototype.trim
Trim(text) ==
    CASE text = PADDED_TEXT -> CAND_TEXT
      [] text = G_BLANK.text -> ""
      [] OTHER -> text

\* Variant: the content is taken as it came, `content || prompt`.
ContentOrUntrimmed(resp, prompt) ==
    IF resp.kind = "text" /\ resp.text # "" THEN <<resp.text>> ELSE prompt

\* response.choices[0]?.message?.content?.trim() || prompt
ContentOr(resp, prompt) ==
    IF resp.kind = "text" /\ Trim(resp.text) # ""
    THEN <<Trim(resp.text)>>
    ELSE prompt

\* generateCandidate's return value once its generation call came back.
generateCandidate(currentPrompt, resp) == ContentOr(resp, currentPrompt)

\* PromptRecord, reduced to the fields the optimizer reads.
Record(id, text, rate) ==
    [id |-> id, prompt_text |-> text, metrics |-> [success_rate |-> rate]]

REC_HIGH == Record("1", RAG_TEXT, 950)
REC_LOW == Record("2", P_STEPS, 700)

REC_MID == Record("3", CAND_TEXT, 900)
REC_TIE == Record("4", P_FULL, 700)

\* The similarPrompts lists handed to a direct learnFromSimilar call: the
\* records above in any number and order.
SimilarLists ==
    LET pool == {REC_HIGH, REC_MID, REC_LOW, REC_TIE}
    IN {recs \in UNION {[1..n -> pool] : n \in 0..Cardinality(pool)} :
           \A i, j \in 1..Len(recs) : recs[i] = recs[j] => i = j}

\* The similarPrompts lists callers (or the vector search) supply.
SimilarInputs == {<<>>, <<REC_HIGH>>, <<REC_LOW, REC_HIGH>>}

\* [...similarPrompts].sort((a, b) => b.success_rate - a.success_rate):
\* a stable sort, descending by success rate.
RECURSIVE InsertSorted(_, _)
InsertSorted(sorted, rec) ==
    IF sorted = <<>> THEN <<rec>>
    ELSE IF Head(sorted).metrics.success_rate >= rec.metrics.success_rate
         THEN <<Head(sorted)>> \o InsertSorted(Tail(sorted), rec)
         ELSE <<rec>> \o sorted

RECURSIVE SortBySuccess(_)
SortBySuccess(recs) ==
    IF recs = <<>> THEN <<>>
    ELSE InsertSorted(SortBySuccess(SubSeq(recs, 1, Len(recs) - 1)),
                      recs[Len(recs)])

\* Variant: the first three records as the caller ordered them.
TopPromptsUnsorted(similarPrompts) ==
    LET n == IF Len(similarPrompts) < 3 THEN Len(similarPrompts) ELSE 3
    IN [i \in 1..n |-> similarPrompts[i].prompt_text]

\* sorted.slice(0, 3).map(p => p.prompt_text)
TopPrompts(similarPrompts) ==
    LET sorted == SortBySuccess(similarPrompts)
        n == IF Len(sorted) < 3 THEN Len(sorted) ELSE 3
    IN [i \in 1..n |-> sorted[i].prompt_text]

\* learnFromSimilar's return value once its generation call came back.
learnFromSimilar(prompt, similarPrompts, resp) ==
    [improved |-> ContentOr(resp, prompt),
     insights |-> Len(TopPrompts(similarPrompts))]

\* ------------------------------------------------------------------ state

\* Concurrent optimize() invocations on the one instance.
Runs == {1, 2}

VARIABLES
    owner,            \* who constructed the instance: "library", "server", "cli"
    config,           \* this.config
    history,          \* this.history
    lastEvaluation,   \* this.lastEvaluation (<<>> is null)
    env,              \* the responses the external calls give in this behaviour
    run,              \* per invocation: the locals of optimize and its caller
    call,             \* the last direct method call and its outcome
    vdb,              \* the VectorDB instance and the Qdrant store behind it
    emb               \* the EmbeddingService instance, Redis and the calls in flight

vars == <<owner, config, history, lastEvaluation, env, run, call, vdb, emb>>

\* Variant: the line does not carry its iteration's number.
LineUnnumbered(kind, iteration, a, b, text) ==
    [kind |-> kind, iteration |-> 0, a |-> a, b |-> b, text |-> text]

\* One line of improvements_made.
Line(kind, iteration, a, b, text) ==
    [kind |-> kind, iteration |-> iteration, a |-> a, b |-> b, text |-> text]

NoArgs == [max_iterations |-> 0, target_score |-> 0]

IdleRun ==
    [pc |-> "idle", args |-> NoArgs,
     originalPrompt |-> <<>>, similarPrompts |-> <<>>,
     improvements |-> <<>>, currentPrompt |-> <<>>, iterations |-> 0,
     scores |-> <<>>, originalScore |-> 0, currentScore |-> 0,
     ragImproved |-> <<>>,   \* <<text>> once learnFromSimilar has returned it
     candidate |-> <<>>,
     metaHistory |-> <<>>,   \* the history entries put into the last meta-prompt
     own |-> <<>>,           \* what this invocation itself seeded / pushed
     result |-> <<>>,        \* <<OptimizePromptResult>> once resolved
     error |-> <<>>,         \* <<message>> once rejected
     rejections |-> 0,       \* external calls of this invocation that rejected
     responses |-> <<>>]     \* what the tool caller / CLI user received

NoCall == [made |-> FALSE, prompt |-> <<>>, resp |-> R_REJECT,
           threw |-> FALSE, value |-> 0, path |-> "none"]

\* ------------------------------------------------------------------ environment

\* The inputs and external responses exercised against an instance a library
\* caller built with a small maxIterations.
WideEnv ==
    [prompts |-> Prompts,
     similar |-> SimilarInputs,
     judge |-> {R_REJECT, R_NOT_JSON, R_GOOD, R_PERFECT},
     generate |-> {G_REJECT, G_NO_CONTENT, G_CANDIDATE, G_SHORT},
     learn |-> {G_REJECT, G_NO_CONTENT, G_RAG}]

\* The ones exercised against the server's and the CLI's instance, whose loop
\* runs up to DEFAULT_CONFIG.maxIterations times.
NarrowEnv ==
    [prompts |-> {<<P_VAGUE>>},
     similar |-> {<<>>, <<REC_HIGH>>},
     judge |-> {R_REJECT, R_NOT_JSON, R_GOOD},
     generate |-> {G_REJECT, G_CANDIDATE},
     learn |-> {G_REJECT, G_RAG}]

\* The ones exercised when two requests are in flight on the server.
SteadyEnv ==
    [prompts |-> {<<P_VAGUE>>, <<P_FULL>>},
     similar |-> {<<>>},
     judge |-> {R_REJECT, R_GOOD},
     generate |-> {G_CANDIDATE},
     learn |-> {G_RAG}]

\* new PromptOptimizer(openai, { maxIterations: n }) for the n a library
\* caller (the tests) passes.
LibraryConfigs ==
    {[DEFAULT_CONFIG EXCEPT !.maxIterations = n] : n \in 0..MaxIterations}

\* Arguments of an optimize_prompt tool call: max_iterations and target_score
\* (thousandths), the second pair being the handler's defaults.
ToolArgs ==
    {[max_iterations |-> 1, target_score |-> 700],
     [max_iterations |-> 5, target_score |-> 900]}

\* `optimize --iterations n` (the CLI has no target option).
CliArgs ==
    {[max_iterations |-> 1, target_score |-> DEFAULT_CONFIG.targetScore],
     [max_iterations |-> 5, target_score |-> DEFAULT_CONFIG.targetScore]}

\* ------------------------------------------------------------------ optimize

\* Variant: the loop test lets one iteration too many through.
LoopContinuesInclusive(iterations, cfg) == iterations <= cfg.maxIterations

\* while (iterations < this.config.maxIterations)
LoopContinues(iterations, cfg) == iterations < cfg.maxIterations

\* Variant: a tie replaces the current prompt.
ImprovesOrTies(candidateScore, currentScore) == candidateScore >= currentScore

\* Variant: any candidate with a different score replaces the current prompt.
ImprovesOnAnyChange(candidateScore, currentScore) == candidateScore # currentScore

\* if (candidateScore > currentScore)
Improves(candidateScore, currentScore) == candidateScore > currentScore

\* Variant: the patterns' text is never taken over.
PatternAdoptedNever(applied) == FALSE

\* if (applied.length > 0)
PatternAdopted(applied) == Len(applied) > 0

\* Variant: whatever learnFromSimilar returns is adopted and logged.
RagAdoptedAlways(ragImproved, currentPrompt) == TRUE

\* if (ragImproved !== currentPrompt)
RagAdopted(ragImproved, currentPrompt) == ragImproved # currentPrompt

\* if (currentScore >= this.config.targetScore)
TargetReached(currentScore, cfg) == currentScore >= cfg.targetScore

\* Variant: the target check is missing, only convergence ends the loop early.
LoopExitConvergenceOnly(scores, currentScore, cfg) ==
    IF checkConvergence(scores, cfg) THEN "Converged" ELSE "none"

\* The two checks that end an iteration, in the order the loop makes them:
\* which `break` is taken, if any.
LoopExit(scores, currentScore, cfg) ==
    IF checkConvergence(scores, cfg) THEN "Converged"
    ELSE IF TargetReached(currentScore, cfg) THEN "Target reached"
    ELSE "none"

\* The response of the CallToolRequestSchema handler (server) or what the
\* CLI prints / exits with, for a resolved and for a rejected optimize().
ResultResponse(res) == [isError |-> FALSE, result |-> <<res>>, error |-> <<>>]
ErrorResponse(msg) == [isError |-> TRUE, result |-> <<>>, error |-> <<msg>>]

Deliver(responses, response) ==
    IF owner = "library" THEN responses ELSE Append(responses, response)

\* Variant: similar_prompts_used counts the records only when phase 2
\* adopted a text.
ReturnedCountingAdopted(rec) ==
    LET adopted == \E i \in 1..Len(rec.improvements) :
                       rec.improvements[i].kind = "RAG improvement"
        res == [original_prompt |-> rec.originalPrompt,
                optimized_prompt |-> rec.currentPrompt,
                improvements_made |-> rec.improvements,
                iterations |-> rec.iterations,
                estimated_improvement |-> rec.currentScore - rec.originalScore,
                similar_prompts_used |->
                    IF adopted THEN Len(rec.similarPrompts) ELSE 0]
    IN [rec EXCEPT !.pc = "done", !.result = <<res>>,
                   !.responses = Deliver(@, ResultResponse(res))]

\* Variant: the improvement is measured from the first entry of scores, the
\* score of the prompt after phases 1 and 2.
ReturnedFromImprovedBaseline(rec) ==
    LET res == [original_prompt |-> rec.originalPrompt,
                optimized_prompt |-> rec.currentPrompt,
                improvements_made |-> rec.improvements,
                iterations |-> rec.iterations,
                estimated_improvement |-> rec.currentScore - rec.scores[1],
                similar_prompts_used |-> Len(rec.similarPrompts)]
    IN [rec EXCEPT !.pc = "done", !.result = <<res>>,
                   !.responses = Deliver(@, ResultResponse(res))]

\* optimize's return statement, and its caller's continuation.
Returned(rec) ==
    LET res == [original_prompt |-> rec.originalPrompt,
                optimized_prompt |-> rec.currentPrompt,
                improvements_made |-> rec.improvements,
                iterations |-> rec.iterations,
                estimated_improvement |-> rec.currentScore - rec.originalScore,
                similar_prompts_used |-> Len(rec.similarPrompts)]
    IN [rec EXCEPT !.pc = "done", !.result = <<res>>,
                   !.responses = Deliver(@, ResultResponse(res))]

\* Variant: a failed call is swallowed and the state so far is returned.
RejectedWithPartialResult(rec, msg) == Returned(rec)

\* An awaited external call rejected: optimize rejects with that error, and
\* its caller's catch (index.ts) / main().catch (cli.ts) reports it.
Rejected(rec, msg) ==
    [rec EXCEPT !.pc = "failed", !.error = <<msg>>,
                !.responses = Deliver(@, ErrorResponse(msg))]

\* Bookkeeping: the external call that just answered rec's invocation with
\* resp is counted if it rejected.
Noted(rec, resp) ==
    IF resp.kind = "reject" THEN [rec EXCEPT !.rejections = @ + 1] ELSE rec

\* Variant: the loop is not entered again once the target is reached.
LoopHeadTestingTarget(rec, hist) ==
    IF LoopContinues(rec.iterations, config)
       /\ ~TargetReached(rec.currentScore, config)
    THEN [rec EXCEPT !.iterations = @ + 1,
                     !.metaHistory = SliceLast(hist, 5),
                     !.pc = "generate"]
    ELSE Returned(rec)

\* The loop test, followed either by the synchronous start of
\* generateCandidate (which reads this.history before its first await) or by
\* the return.
LoopHead(rec, hist) ==
    IF LoopContinues(rec.iterations, config)
    THEN [rec EXCEPT !.iterations = @ + 1,
                     !.metaHistory = SliceLast(hist, 5),
                     !.pc = "generate"]
    ELSE Returned(rec)

\* optimize(originalPrompt, similarPrompts) up to its first await.
Enter(r, prompt, similar, args) ==
    /\ run[r].pc = "idle"
    /\ run' = [run EXCEPT ![r] =
                 [IdleRun EXCEPT !.pc = "scoreOriginal", !.args = args,
                                 !.originalPrompt = prompt,
                                 !.similarPrompts = similar,
                                 !.currentPrompt = prompt]]
    /\ UNCHANGED <<owner, config, history, lastEvaluation, env, call, vdb, emb>>

\* A library caller invokes optimizer.optimize directly.
OptimizeCall(r) ==
    /\ owner = "library"
    /\ \E prompt \in env.prompts, similar \in env.similar :
         Enter(r, prompt, similar, NoArgs)

\* handleOptimizePrompt: the tool's arguments, the similar prompts the
\* vector search returned, then optimizer.optimize(prompt, similarPrompts, domain).
HandleOptimizePrompt(r) ==
    /\ owner = "server"
    /\ \E prompt \in env.prompts, similar \in env.similar, args \in ToolArgs :
         Enter(r, prompt, similar, args)

\* handleOptimize (CLI): optimizer.optimize(prompt, [], domain).
HandleOptimize(r) ==
    /\ owner = "cli"
    /\ \E prompt \in env.prompts, args \in CliArgs :
         Enter(r, prompt, <<>>, args)

\* The judge answers scorePrompt(originalPrompt); then the original-score
\* line, phase 1 (applyPatterns) and the start of phase 2 or of the
\* post-pattern scoring.
ScoreOriginal(r) ==
    /\ run[r].pc = "scoreOriginal"
    /\ \E resp \in env.judge :
         LET rec == Noted(run[r], resp)
             out == scorePrompt(rec.originalPrompt, resp, lastEvaluation)
             pat == applyPatterns(rec.currentPrompt)
             fired == PatternAdopted(pat.applied)
             logged == Append(rec.improvements,
                              Line("Original score", 0, out.value, 0, ""))
                       \o [i \in 1..Len(pat.applied) |->
                             Line("Applied pattern", 0, 0, 0, pat.applied[i])]
         IN /\ lastEvaluation' = out.lastEval
            /\ run' = [run EXCEPT ![r] =
                 IF out.threw THEN Rejected(rec, "API Error")
                 ELSE [rec EXCEPT
                         !.originalScore = out.value,
                         !.improvements = logged,
                         !.currentPrompt = IF fired THEN pat.improved ELSE @,
                         !.pc = IF Len(rec.similarPrompts) > 0
                                THEN "learn" ELSE "scoreCurrent"]]
    /\ UNCHANGED <<owner, config, history, env, call, vdb, emb>>

\* The generation call of learnFromSimilar answers; phase 2's adoption.
LearnFromSimilar(r) ==
    /\ run[r].pc = "learn"
    /\ \E resp \in env.learn :
         LET rec == Noted(run[r], resp)
             learned == learnFromSimilar(rec.currentPrompt, rec.similarPrompts, resp)
         IN run' = [run EXCEPT ![r] =
              IF resp.kind = "reject" THEN Rejected(rec, "API Error")
              ELSE IF RagAdopted(learned.improved, rec.currentPrompt)
              THEN [rec EXCEPT
                      !.ragImproved = <<learned.improved>>,
                      !.currentPrompt = learned.improved,
                      !.improvements =
                          Append(@, Line("RAG improvement", 0, learned.insights, 0, "")),
                      !.pc = "scoreCurrent"]
              ELSE [rec EXCEPT !.ragImproved = <<learned.improved>>,
                               !.pc = "scoreCurrent"]]
    /\ UNCHANGED <<owner, config, history, lastEvaluation, env, call, vdb, emb>>

\* Variant: the original's entry is pushed onto the history that is there.
SeedHistoryKeeping(hist, entry) == Append(hist, entry)

\* this.history = [{ prompt: originalPrompt, score: originalScore }]
SeedHistory(hist, entry) == <<entry>>

\* The judge answers scorePrompt(currentPrompt): the first entry of scores,
\* the (re)assignment of this.history, and the first loop test.
ScoreCurrent(r) ==
    /\ run[r].pc = "scoreCurrent"
    /\ \E resp \in env.judge :
         LET rec == Noted(run[r], resp)
             out == scorePrompt(rec.currentPrompt, resp, lastEvaluation)
             entry == [prompt |-> rec.originalPrompt, score |-> rec.originalScore]
             seed == SeedHistory(history, entry)
         IN /\ lastEvaluation' = out.lastEval
            /\ IF out.threw
               THEN /\ run' = [run EXCEPT ![r] = Rejected(rec, "API Error")]
                    /\ UNCHANGED history
               ELSE /\ history' = seed
                    /\ run' = [run EXCEPT ![r] =
                         LoopHead([rec EXCEPT !.currentScore = out.value,
                                              !.scores = Append(@, out.value),
                                              !.own = <<entry>>],
                                  seed)]
    /\ UNCHANGED <<owner, config, env, call, vdb, emb>>

\* The generation call of generateCandidate answers; scorePrompt(candidate)
\* is then issued.
GenerateCandidate(r) ==
    /\ run[r].pc = "generate"
    /\ \E resp \in env.generate :
         LET rec == Noted(run[r], resp)
         IN run' = [run EXCEPT ![r] =
              IF resp.kind = "reject" THEN Rejected(rec, "API Error")
              ELSE [rec EXCEPT
                      !.candidate = generateCandidate(rec.currentPrompt, resp),
                      !.pc = "scoreCandidate"]]
    /\ UNCHANGED <<owner, config, history, lastEvaluation, env, call, vdb, emb>>

\* `evaluation?.reasoning` is truthy: the `  Reason: ...` line is logged.
ReasonLines(evaluation) ==
    IF evaluation # <<>> /\ evaluation[1].reasoning # <<>>
       /\ evaluation[1].reasoning # <<"">>
    THEN <<Line("Reason", 0, 0, 0, evaluation[1].reasoning[1])>>
    ELSE <<>>

\* The rest of one loop iteration, from the judge's answer to
\* scorePrompt(candidate) up to the next await or the return.
ScoreCandidate(r) ==
    /\ run[r].pc = "scoreCandidate"
    /\ \E resp \in env.judge :
         LET rec == Noted(run[r], resp)
             out == scorePrompt(rec.candidate, resp, lastEvaluation)
             candidateScore == out.value
             entry == [prompt |-> rec.candidate, score |-> candidateScore]
             pushed == Append(history, entry)
             scores == Append(rec.scores, candidateScore)
             better == Improves(candidateScore, rec.currentScore)
             currentScore == IF better THEN candidateScore ELSE rec.currentScore
             iterLines ==
                 IF better
                 THEN <<Line("Iteration improved", rec.iterations,
                             candidateScore - rec.currentScore, currentScore, "")>>
                      \o ReasonLines(out.lastEval)
                 ELSE <<Line("Iteration no improvement", rec.iterations,
                             candidateScore, rec.currentScore, "")>>
             body == [rec EXCEPT
                        !.scores = scores,
                        !.own = Append(@, entry),
                        !.currentPrompt = IF better THEN rec.candidate ELSE @,
                        !.currentScore = currentScore,
                        !.improvements = @ \o iterLines]
         IN /\ lastEvaluation' = out.lastEval
            /\ IF out.threw
               THEN /\ run' = [run EXCEPT ![r] = Rejected(rec, "API Error")]
                    /\ UNCHANGED history
               ELSE /\ history' = pushed
                    /\ run' = [run EXCEPT ![r] =
                         LET exit == LoopExit(scores, currentScore, config)
                         IN IF exit = "Converged"
                            THEN Returned([body EXCEPT !.improvements =
                                    Append(@, Line("Converged", 0, 0, 0, ""))])
                            ELSE IF exit = "Target reached"
                            THEN Returned([body EXCEPT !.improvements =
                                    Append(@, Line("Target reached", 0,
                                                   config.targetScore, 0, ""))])
                            ELSE LoopHead(body, pushed)]
    /\ UNCHANGED <<owner, config, env, call, vdb, emb>>

\* A direct call of scorePrompt(prompt) on an otherwise idle instance (the
\* CLI's `score` command, the tests), from the call to its settlement.
ScorePromptCall ==
    /\ \A r \in Runs : run[r].pc = "idle"
    /\ \E prompt \in Prompts \cup {<<CAND_TEXT>>}, resp \in JudgeResponses :
         LET out == scorePrompt(prompt, resp, lastEvaluation)
         IN /\ lastEvaluation' = out.lastEval
            /\ call' = [made |-> TRUE, prompt |-> prompt, resp |-> resp,
                        threw |-> out.threw, value |-> out.value,
                        path |-> out.path]
    /\ UNCHANGED <<owner, config, history, env, run, vdb, emb>>

\* A direct call of checkConvergence(scores) (the tests).
CheckConvergenceCall ==
    /\ \E scores \in ConvergenceInputs :
         call' = [made |-> TRUE, op |-> "checkConvergence", input |-> scores,
                  output |-> checkConvergence(scores, config)]
    /\ UNCHANGED <<owner, config, history, lastEvaluation, env, run, vdb, emb>>

\* A direct call of applyPatterns(prompt) (the tests).
ApplyPatternsCall ==
    /\ \E prompt \in PatternInputs :
         call' = [made |-> TRUE, op |-> "applyPatterns", input |-> prompt,
                  output |-> applyPatterns(prompt)]
    /\ UNCHANGED <<owner, config, history, lastEvaluation, env, run, vdb, emb>>

\* A direct call of getSuggestions(prompt).
GetSuggestionsCall ==
    /\ \E prompt \in PatternInputs :
         call' = [made |-> TRUE, op |-> "getSuggestions", input |-> prompt,
                  output |-> getSuggestions(prompt)]
    /\ UNCHANGED <<owner, config, history, lastEvaluation, env, run, vdb, emb>>

\* A direct call of generateCandidate(currentPrompt, domain) (the tests),
\* from the call to its settlement.
GenerateCandidateCall ==
    /\ \E prompt \in Prompts, resp \in GenResponses :
         call' = [made |-> TRUE, op |-> "generateCandidate",
                  input |-> [prompt |-> prompt, resp |-> resp],
                  threw |-> resp.kind = "reject",
                  output |-> IF resp.kind = "reject" THEN <<>>
                             ELSE generateCandidate(prompt, resp)]
    /\ UNCHANGED <<owner, config, history, lastEvaluation, env, run, vdb, emb>>

\* A direct call of learnFromSimilar(prompt, similarPrompts, domain) (the
\* tests), from the call to its settlement: the example texts put into the
\* request, the caller's array afterwards (the sort works on a copy), and
\* the returned object.
LearnFromSimilarCall ==
    /\ \E similarPrompts \in SimilarLists,
          resp \in {G_REJECT, G_NO_CONTENT, G_BLANK, G_RAG} :
         call' = [made |-> TRUE, op |-> "learnFromSimilar",
                  input |-> [prompt |-> <<P_VAGUE>>,
                             similarPrompts |-> similarPrompts, resp |-> resp],
                  request |-> TopPrompts(similarPrompts),
                  similarAfter |-> similarPrompts,
                  threw |-> resp.kind = "reject",
                  output |-> IF resp.kind = "reject" THEN <<>>
                             ELSE learnFromSimilar(<<P_VAGUE>>, similarPrompts, resp)]
    /\ UNCHANGED <<owner, config, history, lastEvaluation, env, run, vdb, emb>>

\* ------------------------------------------------------------------ embeddings

\* The texts embedded, and getCacheKey of each: the first 16 hex digits of
\* its SHA-256.
EmbedTexts == <<"Text 1", "Text 2">>

\* Variant: the key does not depend on the text.
getCacheKeyConstant(text) == "21e57b707ffe2bd2"

\* embedContextual(text, domain, taskType): the text it hands to embed.
embedContextual(text, domain, taskType) ==
    CASE text = "Text 1" /\ domain = "general" /\ taskType = "storage" ->
             "Domain: general\nTask: storage\n\nText 1"

getCacheKey(text) ==
    CASE text = "Text 1" -> "21e57b707ffe2bd2"
      [] text = "Text 2" -> "de6f857c42e25dea"
      [] text = "Domain: general\nTask: storage\n\nText 1" -> "25ef7a9f34cd5927"

CacheKeys ==
    {getCacheKey(EmbedTexts[i]) : i \in 1..Len(EmbedTexts)}
        \cup {getCacheKey(embedContextual(EmbedTexts[1], "general", "storage"))}

\* An embedding the API produced for a text. Two requests for one text need
\* not be answered with the same vector: v tells the answers apart.
Embedding(text, v) == [of |-> text, v |-> v]

\* What openai.embeddings.create comes back with: a rejection or vectors.
ApiAnswers == {"reject", "v1", "v2"}

\* response.usage.total_tokens of an answer.
TotalTokens == 10

\* EmbeddingResult
Result(embedding, tokens) == [embedding |-> embedding, tokens_used |-> tokens]

\* Calls of embed / embedBatch that can be in flight together.
Jobs == {1, 2}

\* One call: its position, method and arguments, and for the properties
\* what the in-memory cache held for an embed's text when it was called,
\* the texts sent to the API, the API calls and Redis errors of this call,
\* and per input text <<EmbeddingResult>> once known.
IdleJob ==
    [pc |-> "idle", op |-> "none", texts |-> <<>>, useCache |-> TRUE,
     start |-> <<>>, sent |-> <<>>, api |-> 0,
     redisErrors |-> 0, results |-> <<>>]

\* new EmbeddingService(openai, redis): this.redis set or null, this.cache
\* empty; with it the contents of Redis under `emb:${key}`, the calls in
\* flight, and the texts callers embed (with Redis: one text, by embed only).
EmbeddingService(redis) ==
    [redis |-> redis,
     texts |-> IF redis THEN <<EmbedTexts[1]>> ELSE EmbedTexts,
     cache |-> [k \in CacheKeys |-> <<>>],
     store |-> [k \in CacheKeys |-> <<>>],
     jobs |-> [j \in Jobs |-> IdleJob]]

\* The texts lists handed to embedBatch.
BatchInputs == UNION {[1..n -> {EmbedTexts[i] : i \in 1..Len(EmbedTexts)}] : n \in 0..2}

\* Variant: embedBatch does not look into the cache.
UncachedAll(texts, cache) == [i \in 1..Len(texts) |-> i]

\* embedBatch's first loop: the indexes of the texts not in this.cache.
Uncached(texts, cache) ==
    SelectSeq([i \in 1..Len(texts) |-> i],
              LAMBDA i : cache[getCacheKey(texts[i])] = <<>>)

\* Variant: the in-memory entry is used whatever useCache says.
CacheHitAlways(useCache, held) == held # <<>>

\* if (useCache && this.cache.has(cacheKey))
CacheHit(useCache, held) == useCache /\ held # <<>>

\* embed(text, useCache) up to its first await: the in-memory lookup, then
\* the Redis read or the API request.
EmbedStart(j) ==
    /\ emb.jobs[j].pc \in {"idle", "done", "failed"}
    /\ \E i \in 1..Len(emb.texts), useCache \in BOOLEAN :
         LET text == emb.texts[i]
             held == emb.cache[getCacheKey(text)]
             job == [IdleJob EXCEPT !.op = "embed", !.texts = <<text>>,
                                    !.useCache = useCache, !.start = held,
                                    !.results = << <<>> >>]
         IN emb' =
              IF CacheHit(useCache, held)
              THEN [emb EXCEPT
                      !.jobs[j] = [job EXCEPT !.pc = "done",
                                     !.results = << <<Result(held[1], 0)>> >>]]
              ELSE IF useCache /\ emb.redis
              THEN [emb EXCEPT !.jobs[j] = [job EXCEPT !.pc = "redisGet"]]
              ELSE [emb EXCEPT !.jobs[j] = [job EXCEPT !.pc = "api", !.api = 1,
                                                       !.sent = <<text>>]]
    /\ UNCHANGED <<owner, config, history, lastEvaluation, env, run, call, vdb>>

\* redis.get answers (a value, nothing) or fails: a value is put into
\* this.cache and returned, otherwise the API request is made.
EmbedRedisGet(j) ==
    /\ emb.jobs[j].pc = "redisGet"
    /\ \E fails \in BOOLEAN :
         LET job == emb.jobs[j]
             text == job.texts[1]
             key == getCacheKey(text)
             cached == IF fails THEN <<>> ELSE emb.store[key]
         IN emb' =
              IF cached # <<>>
              THEN [emb EXCEPT
                      !.cache[key] = cached,
                      !.jobs[j] = [job EXCEPT !.pc = "done",
                                     !.results = << <<Result(cached[1], 0)>> >>]]
              ELSE [emb EXCEPT
                      !.jobs[j] = [job EXCEPT
                                     !.pc = "api", !.api = 1, !.sent = <<text>>,
                                     !.redisErrors = IF fails THEN @ + 1 ELSE @]]
    /\ UNCHANGED <<owner, config, history, lastEvaluation, env, run, call, vdb>>

\* openai.embeddings.create answers an embed: the vector is put into
\* this.cache, then written to Redis if there is one, else returned.
EmbedApi(j) ==
    /\ emb.jobs[j].pc = "api" /\ emb.jobs[j].op = "embed"
    /\ \E answer \in ApiAnswers :
         LET job == emb.jobs[j]
             text == job.texts[1]
             key == getCacheKey(text)
             result == Result(Embedding(text, answer), TotalTokens)
         IN emb' =
              IF answer = "reject"
              THEN [emb EXCEPT !.jobs[j] = [job EXCEPT !.pc = "failed"]]
              ELSE IF emb.redis
              THEN [emb EXCEPT
                      !.cache[key] = <<result.embedding>>,
                      !.jobs[j] = [job EXCEPT !.pc = "redisSet",
                                              !.results = << <<result>> >>]]
              ELSE [emb EXCEPT
                      !.cache[key] = <<result.embedding>>,
                      !.jobs[j] = [job EXCEPT !.pc = "done",
                                              !.results = << <<result>> >>]]
    /\ UNCHANGED <<owner, config, history, lastEvaluation, env, run, call, vdb>>

\* redis.setex answers or fails; embed returns either way.
EmbedRedisSet(j) ==
    /\ emb.jobs[j].pc = "redisSet"
    /\ \E fails \in BOOLEAN :
         LET job == emb.jobs[j]
             text == job.texts[1]
             key == getCacheKey(text)
         IN emb' = [emb EXCEPT
                      !.store[key] = IF fails THEN @
                                     ELSE <<job.results[1][1].embedding>>,
                      !.jobs[j] = [job EXCEPT
                                     !.pc = "done",
                                     !.redisErrors = IF fails THEN @ + 1 ELSE @]]
    /\ UNCHANGED <<owner, config, history, lastEvaluation, env, run, call, vdb>>

\* embedBatch(texts) up to its await: the cache loop, then the one API
\* request for the uncached texts, or the return when there are none.
BatchStart(j) ==
    /\ emb.jobs[j].pc \in {"idle", "done", "failed"}
    /\ ~emb.redis
    /\ \E texts \in BatchInputs :
         LET uncached == Uncached(texts, emb.cache)
             results == [i \in 1..Len(texts) |->
                           IF \E k \in 1..Len(uncached) : uncached[k] = i
                           THEN <<>>
                           ELSE <<Result(emb.cache[getCacheKey(texts[i])][1], 0)>>]
             job == [IdleJob EXCEPT !.op = "embedBatch", !.texts = texts,
                                    !.results = results]
         IN emb' = [emb EXCEPT !.jobs[j] =
              IF uncached = <<>> THEN [job EXCEPT !.pc = "done"]
              ELSE [job EXCEPT !.pc = "api", !.api = 1,
                               !.sent = [k \in 1..Len(uncached) |->
                                            texts[uncached[k]]]]]
    /\ UNCHANGED <<owner, config, history, lastEvaluation, env, run, call, vdb>>

\* openai.embeddings.create answers an embedBatch: each vector is put into
\* this.cache and into its text's place in results.
BatchApi(j) ==
    /\ emb.jobs[j].pc = "api" /\ emb.jobs[j].op = "embedBatch"
    /\ \E answer \in ApiAnswers :
         LET job == emb.jobs[j]
             sent == job.sent
             pending == SelectSeq([i \in 1..Len(job.texts) |-> i],
                                  LAMBDA i : job.results[i] = <<>>)
             tokens == TotalTokens \div Len(sent)
         IN emb' =
              IF answer = "reject"
              THEN [emb EXCEPT !.jobs[j] = [job EXCEPT !.pc = "failed"]]
              ELSE [emb EXCEPT
                      !.cache = [k \in CacheKeys |->
                                   IF \E n \in 1..Len(sent) : getCacheKey(sent[n]) = k
                                   THEN <<Embedding(
                                            sent[CHOOSE n \in 1..Len(sent) :
                                                   getCacheKey(sent[n]) = k],
                                            answer)>>
                                   ELSE @[k]],
                      !.jobs[j] = [job EXCEPT
                                     !.pc = "done",
                                     !.results =
                                        [i \in 1..Len(job.texts) |->
                                           IF job.results[i] # <<>> THEN job.results[i]
                                           ELSE <<Result(
                                                    Embedding(
                                                      sent[CHOOSE n \in 1..Len(pending) :
                                                             pending[n] = i],
                                                      answer),
                                                    tokens)>>]]]
    /\ UNCHANGED <<owner, config, history, lastEvaluation, env, run, call, vdb>>

\* An entry of Redis reaches its TTL (setex with CACHE_TTL_HOURS).
RedisExpire ==
    /\ \E k \in CacheKeys :
         /\ emb.store[k] # <<>>
         /\ emb' = [emb EXCEPT !.store[k] = <<>>]
    /\ UNCHANGED <<owner, config, history, lastEvaluation, env, run, call, vdb>>

\* ------------------------------------------------------------------ vector store

\* Ids of the points the store may hold.
PointIds == <<"p1", "p2">>

\* PromptMetrics, reduced to observation_count and success_rate (thousandths).
Metrics(count, rate) == [observation_count |-> count, success_rate |-> rate]

\* new VectorDB(url) in front of a store that does or does not have the
\* collection yet: this.initialized, and in the store the collection, the
\* number of its payload indexes, and per id <<metrics>> of the point or <<>>.
VectorDBOver(collection) ==
    [initialized |-> FALSE, collection |-> collection,
     indexes |-> IF collection THEN 3 ELSE 0,
     points |-> [i \in 1..Len(PointIds) |-> <<>>]]

\* Variant: initialize has no `if (this.initialized) return`.
InitializePlanUnguarded(db) ==
    IF db.collection THEN <<"getCollections">>
    ELSE <<"getCollections", "createCollection", "createPayloadIndex",
           "createPayloadIndex", "createPayloadIndex">>

\* The client calls initialize makes when none of them rejects.
InitializePlan(db) ==
    IF db.initialized THEN <<>>
    ELSE IF db.collection THEN <<"getCollections">>
    ELSE <<"getCollections", "createCollection", "createPayloadIndex",
           "createPayloadIndex", "createPayloadIndex">>

\* initialize(), the failAt-th client call it makes rejecting (0: none does):
\* the instance and store afterwards, whether it rethrew, the calls made.
initialize(db, failAt) ==
    LET plan == InitializePlan(db)
        threw == failAt \in 1..Len(plan)
        done == IF threw THEN failAt - 1 ELSE Len(plan)
    IN [db |-> [db EXCEPT
                  !.initialized = IF plan = <<>> THEN @ ELSE ~threw,
                  !.collection = @ \/ done >= 2,
                  !.indexes = IF done > 2 THEN done - 2 ELSE @],
        threw |-> threw,
        calls |-> IF threw THEN SubSeq(plan, 1, failAt) ELSE plan]

\* initialize() called by request c up to its first await: the return when
\* this.initialized is set, else the getCollections request. calls are the
\* client calls this invocation has issued, outage whether one of them was
\* rejected because the store was unreachable.
InitializeStart(c) ==
    /\ call[c].pc \in {"idle", "done", "failed"}
    /\ call' = [call EXCEPT ![c] =
                  IF vdb.initialized
                  THEN [pc |-> "done", calls |-> <<>>, outage |-> FALSE]
                  ELSE [pc |-> "getCollections", calls |-> <<"getCollections">>,
                        outage |-> FALSE]]
    /\ UNCHANGED <<owner, config, history, lastEvaluation, env, run, vdb, emb>>

\* The client call request c's initialize awaits is answered, and initialize
\* runs on to its next await, its return or its rethrow. The store is
\* unreachable or answers; it answers createCollection with an error when
\* the collection exists, and creates an index that exists again.
InitializeAnswer(c) ==
    /\ call[c].pc \in {"getCollections", "createCollection", "createPayloadIndex"}
    /\ \E outage \in BOOLEAN :
         LET at == call[c]
             issued(name) == [at EXCEPT !.pc = name, !.calls = Append(@, name)]
             indexesAsked == Len(SelectSeq(at.calls,
                                           LAMBDA n : n = "createPayloadIndex"))
         IN IF outage
            THEN /\ call' = [call EXCEPT ![c] =
                               [at EXCEPT !.pc = "failed", !.outage = TRUE]]
                 /\ vdb' = vdb
            ELSE CASE at.pc = "getCollections" ->
                        IF vdb.collection
                        THEN /\ call' = [call EXCEPT ![c] = [at EXCEPT !.pc = "done"]]
                             /\ vdb' = [vdb EXCEPT !.initialized = TRUE]
                        ELSE /\ call' = [call EXCEPT ![c] = issued("createCollection")]
                             /\ vdb' = vdb
                   [] at.pc = "createCollection" ->
                        IF vdb.collection
                        THEN /\ call' = [call EXCEPT ![c] = [at EXCEPT !.pc = "failed"]]
                             /\ vdb' = vdb
                        ELSE /\ call' = [call EXCEPT ![c] = issued("createPayloadIndex")]
                             /\ vdb' = [vdb EXCEPT !.collection = TRUE]
                   [] at.pc = "createPayloadIndex" ->
                        IF indexesAsked < 3
                        THEN /\ call' = [call EXCEPT ![c] = issued("createPayloadIndex")]
                             /\ vdb' = [vdb EXCEPT !.indexes =
                                          IF @ < indexesAsked THEN indexesAsked ELSE @]
                        ELSE /\ call' = [call EXCEPT ![c] = [at EXCEPT !.pc = "done"]]
                             /\ vdb' = [vdb EXCEPT !.indexes = 3,
                                                   !.initialized = TRUE]
    /\ UNCHANGED <<owner, config, history, lastEvaluation, env, run, emb>>

\* The public methods that start with `await this.initialize()`, with the
\* client call each makes in its try block.
VectorOps ==
    [search |-> "search", upsert |-> "upsert", get |-> "retrieve",
     updateMetrics |-> "setPayload", getStats |-> "getCollection",
     delete |-> "delete", scroll |-> "scroll"]

\* The ids of the points in the store, in id order.
StoredIds(db) ==
    SelectSeq(PointIds,
              LAMBDA id : \E i \in 1..Len(PointIds) :
                             PointIds[i] = id /\ db.points[i] # <<>>)

\* One call of a public method op on point id with metrics, the failAt-th
\* call of its initialize rejecting (0: none) and its own client call
\* rejecting or not: instance and store afterwards, whether the method
\* rejected, what it resolved to, the client calls made, whether one rejected.
VectorCall(db, op, id, metrics, failAt, opFails) ==
    LET init == initialize(db, failAt)
        at == init.db
        i == CHOOSE k \in 1..Len(PointIds) : PointIds[k] = id
        swallowed == CASE op \in {"search", "get", "scroll"} -> <<>>
                       [] op = "getStats" -> <<0>>
                       [] OTHER -> <<>>
        answer == CASE op \in {"search", "scroll"} -> StoredIds(at)
                    [] op = "get" -> at.points[i]
                    [] op = "getStats" -> <<Len(StoredIds(at))>>
                    [] OTHER -> <<>>
        written == CASE op = "upsert" -> [at.points EXCEPT ![i] = <<metrics>>]
                     [] op = "updateMetrics" ->
                          [at.points EXCEPT ![i] = IF @ = <<>> THEN @ ELSE <<metrics>>]
                     [] op = "delete" -> [at.points EXCEPT ![i] = <<>>]
                     [] OTHER -> at.points
    IN IF init.threw
       THEN [db |-> at, threw |-> TRUE, output |-> <<>>,
             calls |-> init.calls, failed |-> TRUE]
       ELSE IF opFails
       THEN [db |-> at,
             threw |-> op \in {"upsert", "updateMetrics", "delete"},
             output |-> swallowed,
             calls |-> Append(init.calls, VectorOps[op]), failed |-> TRUE]
       ELSE [db |-> [at EXCEPT !.points = written], threw |-> FALSE,
             output |-> answer,
             calls |-> Append(init.calls, VectorOps[op]), failed |-> FALSE]

\* A direct call of vectorDb.initialize().
InitializeCall ==
    /\ \E failAt \in 0..5 :
         LET out == initialize(vdb, failAt)
         IN /\ vdb' = out.db
            /\ call' = [made |-> TRUE, op |-> "initialize", before |-> vdb,
                        threw |-> out.threw, output |-> <<>>,
                        calls |-> out.calls, failed |-> out.threw]
    /\ UNCHANGED <<owner, config, history, lastEvaluation, env, run, emb>>

\* A direct call of one of the other public methods of vectorDb.
VectorDBCall ==
    /\ \E op \in DOMAIN VectorOps, i \in 1..Len(PointIds),
          metrics \in {Metrics(1, 1000), Metrics(2, 650)},
          failAt \in 0..5, opFails \in BOOLEAN :
         LET out == VectorCall(vdb, op, PointIds[i], metrics, failAt, opFails)
         IN /\ vdb' = out.db
            /\ call' = [made |-> TRUE, op |-> op, before |-> vdb,
                        threw |-> out.threw, output |-> out.output,
                        calls |-> out.calls, failed |-> out.failed]
    /\ UNCHANGED <<owner, config, history, lastEvaluation, env, run, emb>>

\* ------------------------------------------------------------------ record_feedback

\* EMA_ALPHA = 0.3, in thousandths.
EMA_ALPHA == 300

\* Requests of record_feedback the server may be handling at once.
Handlers == {1, 2}

\* A handler slot before its first request: the arguments, the id and the
\* metrics of handleRecordFeedback (returned as updated_metrics at "done"),
\* what it threw, and where it is.
IdleHandler ==
    [pc |-> "idle", prompt_id |-> "", prompt_text |-> <<>>, success |-> FALSE,
     id |-> "", metrics |-> <<>>, error |-> ""]

\* The arguments of the requests made: prompt_id, prompt_text, outcome.success.
FeedbackArgs ==
    {<<"new", <<>>, TRUE>>,
     <<"new", <<EmbedTexts[1]>>, TRUE>>, <<"new", <<EmbedTexts[1]>>, FALSE>>,
     <<PointIds[1], <<>>, TRUE>>, <<PointIds[1], <<>>, FALSE>>,
     <<PointIds[2], <<>>, FALSE>>}

\* The exponential-moving-average update of the metrics read.
UpdatedMetrics(old, success) ==
    Metrics(old.observation_count + 1,
            (EMA_ALPHA * (IF success THEN 1000 ELSE 0)
                + (1000 - EMA_ALPHA) * old.success_rate) \div 1000)

\* The metrics object handleRecordFeedback builds for an existing record
\* from the metrics read and the outcome supplied: rates and scores in
\* thousandths, latency in ms, latency_ms and quality_score <<>> when the
\* caller left them out. `a || b` is b when a is undefined or 0.
EmaMetrics(oldMetrics, outcome) ==
    LET ema(observation, old) ==
            (EMA_ALPHA * observation + (1000 - EMA_ALPHA) * old) \div 1000
        orElse(value, fallback) ==
            IF value = <<>> \/ value[1] = 0 THEN fallback ELSE value[1]
    IN [success_rate |->
            ema(IF outcome.success THEN 1000 ELSE 0, oldMetrics.success_rate),
        avg_latency_ms |->
            ema(orElse(outcome.latency_ms, oldMetrics.avg_latency_ms),
                oldMetrics.avg_latency_ms),
        token_efficiency |->
            ema(orElse(outcome.quality_score, oldMetrics.token_efficiency),
                oldMetrics.token_efficiency),
        observation_count |-> oldMetrics.observation_count + 1]

\* The update of the metrics of an existing record, applied to metrics a
\* record may hold and an outcome a caller may supply.
EmaUpdateCall ==
    /\ \E rate \in {0, 500, 1000}, latency \in {0, 100, 200},
          efficiency \in {0, 500, 1000}, success \in BOOLEAN,
          latency_ms \in {<<>>, <<0>>, <<100>>},
          quality_score \in {<<>>, <<0>>, <<800>>} :
         LET oldMetrics == [success_rate |-> rate, avg_latency_ms |-> latency,
                            token_efficiency |-> efficiency,
                            observation_count |-> 1]
             outcome == [success |-> success, latency_ms |-> latency_ms,
                         quality_score |-> quality_score]
         IN call' = [made |-> TRUE, op |-> "emaUpdate",
                     input |-> [oldMetrics |-> oldMetrics, outcome |-> outcome],
                     output |-> EmaMetrics(oldMetrics, outcome)]
    /\ UNCHANGED <<owner, config, history, lastEvaluation, env, run, vdb, emb>>

\* handleRecordFeedback(args) up to its first await: the check of
\* prompt_text, uuidv4 and embedContextual up to the memory cache for
\* 'new', the call of vectorDb.get otherwise. The prompt_id of a request
\* is 'new', a stored id, or an id that names nothing; an id just drawn for
\* a record being created is not yet known to any client.
RecordFeedbackStart(h) ==
    /\ call[h].pc \in {"idle", "done", "failed"}
    /\ \E given \in FeedbackArgs :
         LET prompt_id == given[1]
             prompt_text == given[2]
             UnusedIds ==
                 {PointIds[i] : i \in {k \in 1..Len(PointIds) : vdb.points[k] = <<>>}}
                     \ {call[k].id : k \in Handlers}
             args == [IdleHandler EXCEPT !.prompt_id = prompt_id,
                                         !.prompt_text = prompt_text,
                                         !.success = given[3]]
         IN IF prompt_id = "new"
            THEN IF prompt_text = <<>>
                 THEN call' = [call EXCEPT ![h] =
                                 [args EXCEPT !.pc = "failed",
                                              !.error = "prompt_text is required when prompt_id is \"new\""]]
                 ELSE \E id \in UnusedIds :
                        LET text == embedContextual(prompt_text[1], "general", "storage")
                            held == emb.cache[getCacheKey(text)]
                        IN call' = [call EXCEPT ![h] =
                                      IF CacheHit(TRUE, held)
                                      THEN [args EXCEPT !.pc = "upsert", !.id = id]
                                      ELSE [args EXCEPT !.pc = "embed", !.id = id]]
            ELSE /\ \A i \in 1..Len(PointIds) :
                       PointIds[i] = prompt_id =>
                           IF vdb.points[i] = <<>>
                           THEN prompt_id \in UnusedIds
                           ELSE vdb.points[i][1].observation_count < MaxObservations
                 /\ call' = [call EXCEPT ![h] =
                                [args EXCEPT !.pc = "get", !.id = prompt_id]]
    /\ UNCHANGED <<owner, config, history, lastEvaluation, env, run, vdb, emb>>

\* openai.embeddings.create answers the embed of embedContextual.
RecordFeedbackEmbed(h) ==
    /\ call[h].pc = "embed"
    /\ \E answer \in {"reject", "v1"} :
         LET text == embedContextual(call[h].prompt_text[1], "general", "storage")
         IN IF answer = "reject"
            THEN /\ call' = [call EXCEPT ![h].pc = "failed", ![h].error = "embedding"]
                 /\ emb' = emb
            ELSE /\ call' = [call EXCEPT ![h].pc = "upsert"]
                 /\ emb' = [emb EXCEPT !.cache[getCacheKey(text)] =
                                          <<Embedding(text, answer)>>]
    /\ UNCHANGED <<owner, config, history, lastEvaluation, env, run, vdb>>

\* The initial metrics and await vectorDb.upsert(id, ...), then the return.
RecordFeedbackUpsert(h) ==
    /\ call[h].pc = "upsert"
    /\ \E failAt \in 0..1, opFails \in BOOLEAN :
         LET metrics == Metrics(1, IF call[h].success THEN 1000 ELSE 0)
             out == VectorCall(vdb, "upsert", call[h].id, metrics, failAt, opFails)
         IN /\ vdb' = out.db
            /\ call' = [call EXCEPT ![h] =
                          IF out.threw
                          THEN [@ EXCEPT !.pc = "failed", !.error = "store",
                                         !.metrics = <<metrics>>]
                          ELSE [@ EXCEPT !.pc = "done", !.metrics = <<metrics>>]]
    /\ UNCHANGED <<owner, config, history, lastEvaluation, env, run, emb>>

\* await vectorDb.get(prompt_id), the 'Prompt not found' check and the
\* metrics computed from the record read.
RecordFeedbackGet(h) ==
    /\ call[h].pc = "get"
    /\ \E failAt \in 0..1, opFails \in BOOLEAN :
         LET out == VectorCall(vdb, "get", call[h].id, <<>>, failAt, opFails)
         IN /\ vdb' = out.db
            /\ call' = [call EXCEPT ![h] =
                          IF out.threw
                          THEN [@ EXCEPT !.pc = "failed", !.error = "store"]
                          ELSE IF out.output = <<>>
                          THEN [@ EXCEPT !.pc = "failed", !.error = "Prompt not found"]
                          ELSE [@ EXCEPT !.pc = "update",
                                         !.metrics =
                                            <<UpdatedMetrics(out.output[1], call[h].success)>>]]
    /\ UNCHANGED <<owner, config, history, lastEvaluation, env, run, emb>>

\* await vectorDb.updateMetrics(prompt_id, metrics), then the return.
RecordFeedbackUpdate(h) ==
    /\ call[h].pc = "update"
    /\ \E failAt \in 0..1, opFails \in BOOLEAN :
         LET out == VectorCall(vdb, "updateMetrics", call[h].id,
                               call[h].metrics[1], failAt, opFails)
         IN /\ vdb' = out.db
            /\ call' = [call EXCEPT ![h] =
                          IF out.threw
                          THEN [@ EXCEPT !.pc = "failed", !.error = "store"]
                          ELSE [@ EXCEPT !.pc = "done"]]
    /\ UNCHANGED <<owner, config, history, lastEvaluation, env, run, emb>>

\* ------------------------------------------------------------------ specifications

Fresh ==
    /\ history = <<>>
    /\ lastEvaluation = <<>>
    /\ run = [r \in Runs |-> IdleRun]
    /\ call = NoCall
    /\ emb = EmbeddingService(FALSE)

\* One optimize() at a time: a library instance, the server's, or the CLI's.
Init ==
    /\ Fresh
    /\ vdb = VectorDBOver(TRUE)
    /\ \/ owner = "library" /\ config \in LibraryConfigs /\ env = WideEnv
       \/ owner \in {"server", "cli"} /\ config = DEFAULT_CONFIG /\ env = NarrowEnv

Step(r) ==
    \/ OptimizeCall(r)
    \/ HandleOptimizePrompt(r)
    \/ HandleOptimize(r)
    \/ ScoreOriginal(r)
    \/ LearnFromSimilar(r)
    \/ ScoreCurrent(r)
    \/ GenerateCandidate(r)
    \/ ScoreCandidate(r)

Next == Step(1)

Spec == Init /\ [][Next]_vars

\* One optimize() on an instance an earlier optimize() has already used:
\* this.history is what that run left behind when it failed or returned
\* after scoring the original (and, the loop allowing, one candidate).
SpecSequential ==
    /\ lastEvaluation = <<>> /\ run = [r \in Runs |-> IdleRun] /\ call = NoCall
    /\ emb = EmbeddingService(FALSE) /\ vdb = VectorDBOver(TRUE)
    /\ \/ owner = "library" /\ config \in LibraryConfigs /\ env = WideEnv
       \/ owner \in {"server", "cli"} /\ config = DEFAULT_CONFIG /\ env = NarrowEnv
    /\ history \in
         {<<[prompt |-> <<P_VAGUE>>, score |-> 500]>>}
            \cup (IF config.maxIterations >= 1
                  THEN {<<[prompt |-> <<P_VAGUE>>, score |-> 500],
                          [prompt |-> <<CAND_TEXT>>, score |-> 600]>>}
                  ELSE {})
    /\ [][Next]_vars

\* Two optimize_prompt requests in flight on the server's one instance.
InitConcurrent ==
    /\ Fresh
    /\ vdb = VectorDBOver(TRUE)
    /\ owner = "server" /\ config = DEFAULT_CONFIG /\ env = SteadyEnv

NextConcurrent ==
    \E r \in Runs :
        \/ HandleOptimizePrompt(r)
        \/ ScoreOriginal(r)
        \/ ScoreCurrent(r)
        \/ GenerateCandidate(r)
        \/ ScoreCandidate(r)

SpecConcurrent == InitConcurrent /\ [][NextConcurrent]_vars

\* Direct scorePrompt calls on a library instance.
InitScore ==
    /\ Fresh
    /\ vdb = VectorDBOver(TRUE)
    /\ owner = "library" /\ config = DEFAULT_CONFIG /\ env = WideEnv

NextScore == ScorePromptCall

SpecScore == InitScore /\ [][NextScore]_vars

\* new PromptOptimizer(openai, { convergenceWindow: w }).
MethodConfigs ==
    {[DEFAULT_CONFIG EXCEPT !.convergenceWindow = w] : w \in {2, 3}}

\* Direct calls of the optimizer's other public methods on a library instance.
InitMethods ==
    /\ Fresh
    /\ vdb = VectorDBOver(TRUE)
    /\ owner = "library" /\ config \in MethodConfigs /\ env = WideEnv

NextMethods ==
    \/ CheckConvergenceCall
    \/ ApplyPatternsCall
    \/ GetSuggestionsCall
    \/ GenerateCandidateCall
    \/ LearnFromSimilarCall

SpecMethods == InitMethods /\ [][NextMethods]_vars

\* Direct calls of the VectorDB methods, the store reachable or not at each
\* client call.
InitVectorDB ==
    /\ Fresh
    /\ owner = "library" /\ config = DEFAULT_CONFIG /\ env = WideEnv
    /\ vdb \in {VectorDBOver(FALSE), VectorDBOver(TRUE)}

NextVectorDB ==
    \/ InitializeCall
    \/ VectorDBCall

SpecVectorDB == InitVectorDB /\ [][NextVectorDB]_vars

\* Calls of embed and embedBatch, up to two in flight, on a service with
\* or without Redis; a Redis may hold an entry written by an earlier process.
InitEmbed ==
    /\ history = <<>> /\ lastEvaluation = <<>>
    /\ run = [r \in Runs |-> IdleRun] /\ call = NoCall
    /\ owner = "library" /\ config = DEFAULT_CONFIG /\ env = WideEnv
    /\ vdb = VectorDBOver(TRUE)
    /\ emb \in {EmbeddingService(FALSE), EmbeddingService(TRUE),
                [EmbeddingService(TRUE) EXCEPT
                    !.store[getCacheKey(EmbedTexts[1])] =
                        <<Embedding(EmbedTexts[1], "v1")>>]}

NextEmbed ==
    \/ \E j \in Jobs :
          \/ EmbedStart(j)
          \/ EmbedRedisGet(j)
          \/ EmbedApi(j)
          \/ EmbedRedisSet(j)
          \/ BatchStart(j)
          \/ BatchApi(j)
    \/ RedisExpire

SpecEmbed == InitEmbed /\ [][NextEmbed]_vars

\* record_feedback requests, up to two handled at once, on the server's
\* vectorDb and embeddings.
InitFeedback ==
    /\ history = <<>> /\ lastEvaluation = <<>>
    /\ run = [r \in Runs |-> IdleRun]
    /\ owner = "server" /\ config = DEFAULT_CONFIG /\ env = WideEnv
    /\ call = [h \in Handlers |-> IdleHandler]
    /\ vdb = VectorDBOver(TRUE)
    /\ emb = EmbeddingService(FALSE)

NextFeedback ==
    \E h \in Handlers :
        \/ RecordFeedbackStart(h)
        \/ RecordFeedbackEmbed(h)
        \/ RecordFeedbackUpsert(h)
        \/ RecordFeedbackGet(h)
        \/ RecordFeedbackUpdate(h)

SpecFeedback == InitFeedback /\ [][NextFeedback]_vars

\* The initialize() calls of the requests the server is handling at once,
\* on one VectorDB instance whose collection exists or not.
SpecInitialize ==
    /\ history = <<>> /\ lastEvaluation = <<>> /\ run = [r \in Runs |-> IdleRun]
    /\ emb = EmbeddingService(FALSE)
    /\ owner = "server" /\ config = DEFAULT_CONFIG /\ env = WideEnv
    /\ vdb \in {VectorDBOver(FALSE), VectorDBOver(TRUE)}
    /\ call = [c \in Handlers |->
                 [pc |-> "idle", calls |-> <<>>, outage |-> FALSE]]
    /\ [][\E c \in Handlers : InitializeStart(c) \/ InitializeAnswer(c)]_vars

\* The metrics update of record_feedback on its own.
SpecMetrics ==
    /\ history = <<>> /\ lastEvaluation = <<>> /\ run = [r \in Runs |-> IdleRun]
    /\ call = NoCall /\ emb = EmbeddingService(FALSE)
    /\ vdb = VectorDBOver(TRUE)
    /\ owner = "server" /\ config = DEFAULT_CONFIG /\ env = WideEnv
    /\ [][EmaUpdateCall]_vars

SpecLive == Init /\ [][Next]_vars /\ WF_vars(Next)

\* ------------------------------------------------------------------ properties

LastLine(rec) == rec.improvements[Len(rec.improvements)]

\* rec's loop has completed at least one iteration and goes on to another.
LoopGoesOn(rec) ==
    rec.pc \in {"generate", "scoreCandidate"} /\ Len(rec.scores) >= 2

Settled(rec) == rec.pc \in {"done", "failed"}

\* C1: in every iteration the candidate replaces the current prompt, and its
\* score the current score, exactly when candidateScore > currentScore; a
\* candidate that ties (or scores lower) leaves both unchanged and the
\* iteration is logged as "No improvement".
C1_IterationStep ==
    (run[1].pc = "scoreCandidate" /\ run'[1].pc \in {"generate", "done"}) =>
        LET candidateScore == run'[1].scores[Len(run'[1].scores)]
            logged == run'[1].improvements[Len(run[1].improvements) + 1]
        IN /\ candidateScore > run[1].currentScore =>
                /\ run'[1].currentPrompt = run[1].candidate
                /\ run'[1].currentScore = candidateScore
                /\ logged.kind = "Iteration improved"
           /\ candidateScore <= run[1].currentScore =>
                /\ run'[1].currentPrompt = run[1].currentPrompt
                /\ run'[1].currentScore = run[1].currentScore
                /\ logged = Line("Iteration no improvement", run[1].iterations,
                                 candidateScore, run[1].currentScore, "")

C1_StrictImprovementOnly == [][C1_IterationStep]_vars

\* C1 witness: a run ended on an iteration whose candidate, a different text,
\* tied the current score and was discarded.
C1_TieDiscarded ==
    /\ run[1].pc = "done"
    /\ run[1].candidate # run[1].currentPrompt
    /\ \E i \in 1..Len(run[1].improvements) :
         /\ run[1].improvements[i].kind = "Iteration no improvement"
         /\ run[1].improvements[i].iteration = run[1].iterations
         /\ run[1].improvements[i].a = run[1].improvements[i].b

C2_Counted ==
    /\ run[1].iterations <= config.maxIterations
    /\ run[1].pc = "done" =>
         /\ run[1].result[1].iterations <= config.maxIterations
         /\ run[1].result[1].iterations = Len(run[1].scores) - 1
         /\ run[1].result[1].iterations = Len(run[1].own) - 1

\* C2: with every external call answered, optimize settles, never having
\* made more than config.maxIterations loop iterations, and the iterations it
\* returns is the number of candidates generated and scored in the run.
C2_TerminatesWithinBudget ==
    /\ []C2_Counted
    /\ (run[1].pc # "idle") ~> Settled(run[1])

\* C2 witness: a run that used its whole budget of two or more iterations.
C2_BudgetExhausted ==
    /\ run[1].pc = "done"
    /\ config.maxIterations >= 2
    /\ run[1].result[1].iterations = config.maxIterations
    /\ LastLine(run[1]).kind \notin {"Converged", "Target reached"}

\* C3: the loop goes on to another iteration only while the scores have not
\* converged and the current score is below the target; a finished run that
\* stopped on convergence ends its log with the Converged line, one that
\* stopped on the target (and had not converged) with the Target line, and
\* otherwise it used up maxIterations.
C3_ExitsAtFirstStop ==
    /\ LoopGoesOn(run[1]) =>
         /\ ~checkConvergence(run[1].scores, config)
         /\ run[1].currentScore < config.targetScore
    /\ (run[1].pc = "done" /\ run[1].iterations >= 1) =>
         IF checkConvergence(run[1].scores, config)
         THEN LastLine(run[1]).kind = "Converged"
         ELSE IF run[1].currentScore >= config.targetScore
         THEN LastLine(run[1]).kind = "Target reached"
         ELSE /\ run[1].iterations = config.maxIterations
              /\ LastLine(run[1]).kind \in
                   {"Iteration improved", "Iteration no improvement", "Reason"}

\* C3 witness: a run stopped by the target check before its budget ran out.
C3_StoppedOnTarget ==
    /\ run[1].pc = "done"
    /\ run[1].iterations < config.maxIterations
    /\ LastLine(run[1]).kind = "Target reached"

\* C4: a run started through the optimize_prompt tool or the CLI makes at
\* most args.max_iterations iterations and does not go on once the current
\* score has reached args.target_score.
C4_CallerLimitsBoundRun ==
    owner \in {"server", "cli"} =>
        /\ run[1].iterations <= run[1].args.max_iterations
        /\ LoopGoesOn(run[1]) => run[1].currentScore < run[1].args.target_score

\* C5: the history a run's generateCandidate reads holds exactly the entries
\* that run seeded and pushed (their last five), whatever the other run does.
C5_HistoryIsRunLocal ==
    \A r \in Runs :
        run[r].pc \in {"generate", "scoreCandidate"} =>
            run[r].metaHistory = SliceLast(run[r].own, 5)

C7_UnparseableFallsBack ==
    (call.made /\ call.resp.kind = "not_json") =>
        /\ ~call.threw
        /\ call.path = "heuristic"
        /\ call.value = quickHeuristicFallback(call.prompt)
        /\ call.value > 0 /\ call.value <= 1000

\* C7 witness: "not JSON" scored for the numbered step-by-step prompt.
C7_FellBack ==
    /\ call.made /\ call.resp = R_NOT_JSON
    /\ call.prompt = <<P_STEPS>>
    /\ call.value = 650

\* C8: when the judge request itself rejects, scorePrompt does not throw and
\* returns a heuristic score in (0,1].
C8_JudgeFailureFallsBack ==
    (call.made /\ call.resp.kind = "reject") =>
        /\ ~call.threw
        /\ call.path = "heuristic"
        /\ call.value > 0 /\ call.value <= 1000

\* The judge's response has the expected structure: a JSON object with a
\* member for each criterion and a reasoning member.
WellFormedJudgement(resp) ==
    /\ resp.kind = "json_object"
    /\ Criteria \subseteq DOMAIN resp.fields
    /\ resp.reasoning # <<>>

\* C9: a judge response (the request having succeeded) that lacks the
\* expected structure is scored by the heuristic fallback, never judged.
C9_MalformedStructureFallsBack ==
    (call.made /\ call.resp.kind # "reject" /\ ~WellFormedJudgement(call.resp)) =>
        call.path = "heuristic"

\* C10: whatever the judge's response holds, the number scorePrompt returns
\* and the weightedScore of the retained evaluation lie in [0,1].
C10_ScoreInUnitInterval ==
    /\ (call.made /\ ~call.threw) => (call.value >= 0 /\ call.value <= 1000)
    /\ lastEvaluation # <<>> =>
         /\ lastEvaluation[1].weightedScore >= 0
         /\ lastEvaluation[1].weightedScore <= 1000

\* C11: when the judge returns a JSON object holding the five criteria,
\* scorePrompt returns the sum of value/10 x weight with the weights
\* 0.25, 0.25, 0.20, 0.15, 0.15 (summing to 1.0); for 8, 7, 6, 8, 7 that
\* is 0.72.
C11_WeightedSum ==
    (/\ call.made
     /\ call.resp.kind = "json_object"
     /\ Criteria \subseteq DOMAIN call.resp.fields) =>
        /\ ~call.threw
        /\ call.path = "judged"
        /\ call.value = 25 * call.resp.fields.clarity
                        + 25 * call.resp.fields.specificity
                        + 20 * call.resp.fields.completeness
                        + 15 * call.resp.fields.structure
                        + 15 * call.resp.fields.effectiveness
        /\ call.resp = R_GOOD => call.value = 720

\* C11 witness: the judgement 8, 7, 6, 8, 7 was scored 0.72.
C11_ScoredExample ==
    /\ call.made /\ call.resp = R_GOOD
    /\ call.path = "judged" /\ call.value = 720

\* C12: after a scorePrompt call, getLastEvaluation() describes that call:
\* after a judged scoring it holds that call's scores, reasoning and
\* weightedScore (the returned score); after a heuristic scoring it shows no
\* judged scores and no reasoning, never an earlier call's judgement.
C12_LastEvaluationIsOfLastCall ==
    (call.made /\ ~call.threw) =>
        /\ call.path = "judged" =>
              lastEvaluation = << [scores |-> call.resp.fields,
                                   reasoning |-> call.resp.reasoning,
                                   weightedScore |-> call.value] >>
        /\ call.path = "heuristic" =>
              \/ lastEvaluation = <<>>
              \/ /\ lastEvaluation[1].scores = <<>>
                 /\ lastEvaluation[1].reasoning = <<>>

\* C13: checkConvergence(scores) is true exactly when scores has at least
\* convergenceWindow entries and the largest and smallest of the last
\* convergenceWindow entries differ by less than convergenceThreshold;
\* the entries before that window have no influence.
C13_ConvergedIffWindowSteady ==
    (call.made /\ call.op = "checkConvergence") =>
        LET s == call.input
            n == Len(s)
            w == config.convergenceWindow
        IN /\ call.output =
                (/\ n >= w
                 /\ \A i, j \in (n - w + 1)..n :
                        s[i] - s[j] < config.convergenceThreshold)
           /\ \A t \in ConvergenceInputs :
                 (/\ n >= w /\ Len(t) >= w
                  /\ \A k \in 0..(w - 1) : t[Len(t) - k] = s[n - k]) =>
                     checkConvergence(t, config) = call.output
           /\ w = 3 =>
                 /\ s = <<500, 600, 750, 760, 760, 770>> => call.output
                 /\ s = <<500, 600, 700, 800, 900>> => ~call.output
                 /\ n < 3 => ~call.output

\* C13 witness: the recorded converging sequence was found converged with
\* the default window.
C13_ExampleConverged ==
    /\ call.made /\ call.op = "checkConvergence"
    /\ config.convergenceWindow = 3
    /\ call.input = <<500, 600, 750, 760, 760, 770>>
    /\ call.output

\* No check of IMPROVEMENT_PATTERNS holds on the text p.
NoPatternHolds(p) ==
    \A i \in 1..Len(IMPROVEMENT_PATTERNS) :
        ~PatternCheck(IMPROVEMENT_PATTERNS[i].name, p)

\* The suffix the pattern called name appends.
SuffixOf(name) ==
    (CHOOSE pattern \in {IMPROVEMENT_PATTERNS[i] : i \in 1..Len(IMPROVEMENT_PATTERNS)} :
        pattern.name = name).suffix

\* C14: applyPatterns returns a prompt on which no pattern's check holds
\* unchanged, with nothing applied; so does a second application to an
\* output on which no check holds any more; and every pattern it applied
\* had its check hold on the text as rewritten by the patterns before it.
C14_NothingToApplyIsIdentity ==
    (call.made /\ call.op = "applyPatterns") =>
        LET p == call.input
            out == call.output
            Before(k) == p \o [j \in 1..(k - 1) |-> SuffixOf(out.applied[j])]
        IN /\ NoPatternHolds(p) => out = [improved |-> p, applied |-> <<>>]
           /\ NoPatternHolds(out.improved) =>
                 applyPatterns(out.improved) =
                     [improved |-> out.improved, applied |-> <<>>]
           /\ \A k \in 1..Len(out.applied) :
                 PatternCheck(out.applied[k], Before(k))
           /\ out.improved = Before(Len(out.applied) + 1)

\* C14 witness: a prompt on which no check holds came back unchanged.
C14_FullPromptUnchanged ==
    /\ call.made /\ call.op = "applyPatterns"
    /\ call.input = <<P_FULL>> /\ NoPatternHolds(<<P_FULL>>)
    /\ call.output = [improved |-> <<P_FULL>>, applied |-> <<>>]

\* C15: generateCandidate returns currentPrompt unchanged when the
\* generation call yields no usable text (content null or missing, empty,
\* or white space only), and otherwise the generated text without the
\* white space around it.
C15_CandidateOrCurrentPrompt ==
    (call.made /\ call.op = "generateCandidate" /\ ~call.threw) =>
        LET content == call.input.resp
        IN /\ content \in {G_NO_CONTENT, G_EMPTY, G_BLANK} =>
                 call.output = call.input.prompt
           /\ content \in {G_CANDIDATE, G_PADDED} => call.output = <<CAND_TEXT>>
           /\ content = G_RAG => call.output = <<RAG_TEXT>>

\* C15 witness: content of white space only gave the current prompt back.
C15_BlankGaveCurrentPrompt ==
    /\ call.made /\ call.op = "generateCandidate"
    /\ call.input.resp = G_BLANK
    /\ call.output = call.input.prompt /\ call.output = <<P_VAGUE>>

\* C16: a candidate whose text is the current prompt is rejected whatever
\* the judge returns for it: the current score stays, and the iteration is
\* logged as no improvement, not as an improvement.
C16_NoOpCandidateRejected ==
    [][(/\ run[1].pc = "scoreCandidate"
        /\ run[1].candidate = run[1].currentPrompt
        /\ run'[1].pc # "failed") =>
           /\ run'[1].currentScore = run[1].currentScore
           /\ Len(run'[1].improvements) > Len(run[1].improvements)
           /\ run'[1].improvements[Len(run[1].improvements) + 1].kind =
                  "Iteration no improvement"]_vars

\* The log holds a 'RAG improvement' line.
HasRagLine(improvements) ==
    \E i \in 1..Len(improvements) : improvements[i].kind = "RAG improvement"

\* C17: optimize calls learnFromSimilar exactly when similarPrompts is not
\* empty; the text it returns becomes the current prompt and a 'RAG
\* improvement' line is logged exactly when that text differs from the
\* prompt as the patterns left it.
C17_LearnsOnlyFromRecordsAdoptsOnlyChange ==
    LET rec == run[1]
        postPattern == applyPatterns(rec.originalPrompt).improved
    IN /\ rec.pc = "learn" => Len(rec.similarPrompts) > 0
       /\ rec.pc \in {"scoreCurrent", "generate", "scoreCandidate", "done"} =>
             /\ rec.ragImproved # <<>> <=> Len(rec.similarPrompts) > 0
             /\ HasRagLine(rec.improvements) <=>
                   (rec.ragImproved # <<>> /\ rec.ragImproved[1] # postPattern)
             /\ rec.pc = "scoreCurrent" =>
                   rec.currentPrompt =
                       IF rec.ragImproved # <<>> /\ rec.ragImproved[1] # postPattern
                       THEN rec.ragImproved[1] ELSE postPattern

\* C17 witness: learnFromSimilar returned the prompt it was given, and
\* nothing was adopted or logged for it.
C17_UnchangedTextNotAdopted ==
    /\ run[1].pc = "scoreCurrent"
    /\ Len(run[1].similarPrompts) > 0
    /\ run[1].ragImproved = <<applyPatterns(run[1].originalPrompt).improved>>
    /\ run[1].currentPrompt = applyPatterns(run[1].originalPrompt).improved
    /\ ~HasRagLine(run[1].improvements)

C19_TopThreeBySuccessRate ==
    (call.made /\ call.op = "learnFromSimilar") =>
        LET recs == call.input.similarPrompts
            n == Len(recs)
            m == IF n < 3 THEN n ELSE 3
            sent == call.request
            rate(i) == recs[i].metrics.success_rate
        IN /\ Len(sent) = m
           /\ \E idx \in [1..m -> 1..n] :
                 /\ \A k, l \in 1..m : idx[k] = idx[l] => k = l
                 /\ \A k \in 1..m : sent[k] = recs[idx[k]].prompt_text
                 /\ \A k \in 1..(m - 1) : rate(idx[k]) >= rate(idx[k + 1])
                 /\ \A j \in 1..n :
                       (\A k \in 1..m : idx[k] # j) =>
                           \A k \in 1..m : rate(j) <= rate(idx[k])
           /\ call.similarAfter = recs
           /\ ~call.threw =>
                 /\ call.output.insights = m
                 /\ call.input.resp \in {G_NO_CONTENT, G_BLANK} =>
                       call.output.improved = call.input.prompt

\* C19 witness: four records in ascending order of success rate, of which
\* the three best were sent, best first, the generation yielding no text.
C19_BestThreeOfFourSent ==
    /\ call.made /\ call.op = "learnFromSimilar"
    /\ call.input.similarPrompts = <<REC_LOW, REC_TIE, REC_MID, REC_HIGH>>
    /\ call.request = <<RAG_TEXT, CAND_TEXT, P_STEPS>>
    /\ call.input.resp = G_NO_CONTENT
    /\ call.output = [improved |-> <<P_VAGUE>>, insights |-> 3]

\* C20: estimated_improvement is the score recorded for the returned
\* optimized prompt less the score of the original prompt as passed in,
\* not less the score of the prompt after the patterns and the learning.
C20_ImprovementFromOriginalScore ==
    run[1].pc = "done" =>
        LET rec == run[1]
            res == rec.result[1]
            first == res.improvements_made[1]
        IN /\ first.kind = "Original score"
           /\ rec.own[1] = [prompt |-> res.original_prompt, score |-> first.a]
           /\ res.estimated_improvement = rec.currentScore - first.a
           /\ \/ /\ rec.currentScore = rec.scores[1]
                 /\ \A i \in 1..Len(res.improvements_made) :
                        res.improvements_made[i].kind # "Iteration improved"
              \/ \E i \in 2..Len(rec.own) :
                    rec.own[i] = [prompt |-> res.optimized_prompt,
                                  score |-> rec.currentScore]

\* C20 witness: the original and the improved prompt scored differently,
\* and the improvement returned is measured from the original's score.
C20_MeasuredFromOriginal ==
    /\ run[1].pc = "done"
    /\ run[1].originalScore # run[1].scores[1]
    /\ run[1].result[1].optimized_prompt # run[1].result[1].original_prompt
    /\ run[1].result[1].estimated_improvement =
           run[1].currentScore - run[1].originalScore
    /\ run[1].result[1].estimated_improvement > 0

\* C21: while an optimize run is in its loop (and when it has returned with
\* no other run started), history and scores have the same length, one
\* more than the iterations executed; history[0] is the
\* original prompt with its score, and from the second entry on
\* history[i].score = scores[i].
C21_HistoryAndScoresInLockstep ==
    \A r \in Runs :
        (\/ run[r].pc \in {"generate", "scoreCandidate"}
         \/ /\ run[r].pc = "done"
            /\ \A q \in Runs \ {r} : run[q].pc = "idle") =>
            LET rec == run[r]
                executed == IF rec.pc = "done" THEN rec.iterations
                            ELSE rec.iterations - 1
            IN /\ Len(rec.scores) = 1 + executed
               /\ Len(history) = Len(rec.scores)
               /\ history[1] = [prompt |-> rec.originalPrompt,
                                score |-> rec.originalScore]
               /\ \A i \in 2..Len(history) : history[i].score = rec.scores[i]

\* C22: in every iteration of a run, the history put into the candidate
\* generator's meta-prompt starts with the original prompt as passed in and
\* its score.
C22_ContextStartsAtOriginal ==
    run[1].pc \in {"generate", "scoreCandidate"} =>
        /\ run[1].metaHistory # <<>>
        /\ run[1].metaHistory[1] = [prompt |-> run[1].originalPrompt,
                                    score |-> run[1].originalScore]

\* The log holds a line of the given kind.
HasLine(improvements, kind) ==
    \E i \in 1..Len(improvements) : improvements[i].kind = kind

IterationLines(improvements) ==
    SelectSeq(improvements,
              LAMBDA l : l.kind \in {"Iteration improved", "Iteration no improvement"})

\* The iterations of run 1 whose candidate has been scored and logged.
Executed ==
    CASE run[1].pc \in {"generate", "scoreCandidate"} -> run[1].iterations - 1
      [] run[1].pc = "failed" /\ run[1].iterations > 0 -> run[1].iterations - 1
      [] OTHER -> run[1].iterations

\* C24: the improvements log holds exactly one 'Iteration i' line for each
\* executed iteration i, in increasing order of i, after the 'Original
\* score' line that opens it; and a step only ever appends to the log.
C24_OneLinePerIterationAppendOnly ==
    /\ [](LET log == run[1].improvements
              lines == IterationLines(log)
          IN /\ Len(lines) = Executed
             /\ \A k \in 1..Len(lines) : lines[k].iteration = k
             /\ Len(log) > 0 => log[1].kind = "Original score"
             /\ run[1].pc = "done" =>
                   /\ run[1].result[1].improvements_made = log
                   /\ run[1].result[1].iterations = Len(lines))
    /\ [][/\ Len(run'[1].improvements) >= Len(run[1].improvements)
          /\ SubSeq(run'[1].improvements, 1, Len(run[1].improvements))
                 = run[1].improvements]_vars

\* C24 witness: a run of two iterations, one improving and one not, with
\* their two lines in order.
C24_TwoIterationsLogged ==
    /\ run[1].pc = "done" /\ run[1].iterations = 2
    /\ Len(IterationLines(run[1].improvements)) = 2
    /\ IterationLines(run[1].improvements)[1].kind = "Iteration improved"
    /\ IterationLines(run[1].improvements)[2].kind = "Iteration no improvement"
    /\ HasLine(run[1].improvements, "Reason")

\* C25: VectorDB.search never rejects: when a client call it makes fails
\* (the search request, or the calls that check and create the collection)
\* it resolves to the empty list.
C25_SearchNeverFails ==
    (call.made /\ call.op = "search") =>
        /\ ~call.threw
        /\ call.failed => call.output = <<>>

\* The calls of initialize among the client calls a method call made.
InitializeCalls(calls) ==
    SelectSeq(calls, LAMBDA c : c \in {"getCollections", "createCollection",
                                       "createPayloadIndex"})

\* C26: a VectorDB method called on an initialized instance makes none of
\* initialize's client calls; the collection and its three indexes are
\* created only when the collection was absent; an initialize one of whose
\* calls fails rejects and leaves the instance uninitialized, so that the
\* next call starts again with the collection check.
C26_InitializeOncePerInstance ==
    (call.made /\ call.op \in DOMAIN VectorOps \cup {"initialize"}) =>
        LET made == InitializeCalls(call.calls)
            failedInInit == call.failed /\ made = call.calls
            creating == <<"getCollections", "createCollection",
                          "createPayloadIndex", "createPayloadIndex",
                          "createPayloadIndex">>
        IN /\ call.before.initialized =>
                 /\ made = <<>>
                 /\ vdb.initialized
                 /\ call.op = "initialize" => call.calls = <<>> /\ ~call.threw
           /\ ~call.before.initialized =>
                 /\ made # <<>> /\ made[1] = "getCollections"
                 /\ call.before.collection => made = <<"getCollections">>
                 /\ (~call.before.collection /\ ~failedInInit) =>
                       /\ made = creating
                       /\ vdb.collection /\ vdb.indexes = 3
                 /\ failedInInit => call.threw /\ ~vdb.initialized
                 /\ ~failedInInit => vdb.initialized
           /\ Len(made) > 1 => ~call.before.collection

\* C26 witness: initialize called on an initialized instance made no call.
C26_SecondInitializeSilent ==
    /\ call.made /\ call.op = "initialize"
    /\ call.before.initialized /\ vdb.initialized
    /\ call.calls = <<>> /\ ~call.threw
    /\ vdb.indexes = 3

C28_CacheNeverChangesTheAnswer ==
    /\ [](/\ \A j \in Jobs : \A i \in 1..Len(emb.jobs[j].results) :
                emb.jobs[j].results[i] # <<>> =>
                    emb.jobs[j].results[i][1].embedding.of = emb.jobs[j].texts[i]
          /\ \A i \in 1..Len(EmbedTexts) :
                LET k == getCacheKey(EmbedTexts[i])
                IN /\ emb.cache[k] # <<>> => emb.cache[k][1].of = EmbedTexts[i]
                   /\ emb.store[k] # <<>> => emb.store[k][1].of = EmbedTexts[i]
          /\ \A j \in Jobs :
                emb.jobs[j].pc = "failed" =>
                    emb.jobs[j].api = 1 /\ emb.jobs[j].sent # <<>>)
    /\ [][\A j \in Jobs :
            /\ (emb.jobs[j].pc = "api" /\ emb'.jobs[j].pc \in {"redisSet", "done"}) =>
                  \A i \in 1..Len(emb.jobs[j].texts) :
                      emb.jobs[j].results[i] = <<>> =>
                          emb'.cache[getCacheKey(emb.jobs[j].texts[i])] =
                              <<emb'.jobs[j].results[i][1].embedding>>
            /\ (emb.jobs[j].pc = "redisSet" /\ emb'.jobs[j].pc = "done"
                /\ emb'.store # emb.store) =>
                  emb'.store[getCacheKey(emb.jobs[j].texts[1])] =
                      <<emb.jobs[j].results[1][1].embedding>>]_vars

\* C28 witness: two embeds of one text raced past an empty cache, Redis
\* failing on the read and on the write of one of them; both resolved, with
\* different vectors of that text, and the cache holds one of them.
C28_RacedAndSurvivedRedis ==
    /\ emb.jobs[1].pc = "done" /\ emb.jobs[2].pc = "done"
    /\ emb.jobs[1].op = "embed" /\ emb.jobs[2].op = "embed"
    /\ emb.jobs[1].texts = emb.jobs[2].texts
    /\ emb.jobs[1].start = <<>> /\ emb.jobs[2].start = <<>>
    /\ emb.jobs[1].redisErrors = 2
    /\ emb.jobs[1].results[1][1].embedding # emb.jobs[2].results[1][1].embedding
    /\ emb.cache[getCacheKey(emb.jobs[1].texts[1])] =
           <<emb.jobs[2].results[1][1].embedding>>

\* C29: embedBatch(texts) sends, in one API request, exactly the texts not
\* in the in-memory cache when it is called, and none when there are none;
\* it returns one result per text in input order, the cached ones with
\* tokens_used = 0; every text of the batch is in the cache afterwards.
C29_BatchSendsOnlyUncached ==
    /\ [](\A j \in Jobs :
            (emb.jobs[j].pc = "done" /\ emb.jobs[j].op = "embedBatch") =>
                LET job == emb.jobs[j]
                IN /\ Len(job.results) = Len(job.texts)
                   /\ \A i \in 1..Len(job.texts) :
                         /\ job.results[i] # <<>>
                         /\ job.results[i][1].embedding.of = job.texts[i]
                         /\ emb.cache[getCacheKey(job.texts[i])] # <<>>
                   /\ job.api = IF job.sent = <<>> THEN 0 ELSE 1)
    /\ [][\A j \in Jobs :
            (emb'.jobs[j] # emb.jobs[j] /\ emb'.jobs[j].op = "embedBatch"
             /\ emb.jobs[j].pc # "api") =>
                LET job == emb'.jobs[j]
                    absent(i) == emb.cache[getCacheKey(job.texts[i])] = <<>>
                IN /\ job.sent =
                        SelectSeq(job.texts,
                                  LAMBDA t : emb.cache[getCacheKey(t)] = <<>>)
                   /\ \A i \in 1..Len(job.texts) :
                         ~absent(i) =>
                            job.results[i] =
                               <<Result(emb.cache[getCacheKey(job.texts[i])][1], 0)>>
                   /\ job.pc = IF job.sent = <<>> THEN "done" ELSE "api"]_vars

\* C29 witness: a batch of a cached and an uncached text sent only the
\* second and returned both in input order.
C29_MixedBatch ==
    /\ emb.jobs[1].pc = "done" /\ emb.jobs[1].op = "embedBatch"
    /\ emb.jobs[1].texts = <<"Text 1", "Text 2">>
    /\ emb.jobs[1].sent = <<"Text 2">>
    /\ emb.jobs[1].results[1][1].tokens_used = 0
    /\ emb.jobs[1].results[2][1] = Result(Embedding("Text 2", "v2"), 10)

\* The index in PointIds of the record a handler works on.
PointOf(h) == CHOOSE k \in 1..Len(PointIds) : PointIds[k] = call'[h].id

\* A step of handler h of a request for a new record: without prompt_text
\* it fails at once and nothing is stored; a request that returns has
\* created one record, under an id that was not stored, with
\* observation_count 1 and success_rate 1 or 0; no other step of it writes.
NewRecordRule(h) ==
    (call'[h] # call[h] /\ call'[h].prompt_id = "new") =>
        /\ call'[h].prompt_text = <<>> =>
              /\ call'[h].pc = "failed"
              /\ call'[h].error = "prompt_text is required when prompt_id is \"new\""
        /\ IF call'[h].pc = "done"
           THEN /\ vdb.points[PointOf(h)] = <<>>
                /\ vdb'.points =
                      [vdb.points EXCEPT ![PointOf(h)] =
                          <<Metrics(1, IF call'[h].success THEN 1000 ELSE 0)>>]
                /\ call'[h].metrics = vdb'.points[PointOf(h)]
           ELSE vdb'.points = vdb.points

\* A step of handler h of a request for an existing id: when the record is
\* not there it fails, with 'Prompt not found' once the store answered,
\* and writes nothing; a request that returns has written its metrics, whose
\* observation_count is the stored one plus 1; no other step of it writes.
ExistingRecordRule(h) ==
    (call'[h] # call[h] /\ call'[h].prompt_id # "new") =>
        /\ (call[h].pc = "get" /\ vdb.points[PointOf(h)] = <<>>) =>
              /\ call'[h].pc = "failed"
              /\ vdb.initialized => call'[h].error = "Prompt not found"
        /\ IF call'[h].pc = "done"
           THEN /\ vdb.points[PointOf(h)] # <<>>
                /\ vdb'.points =
                      [vdb.points EXCEPT ![PointOf(h)] = call'[h].metrics]
                /\ call'[h].metrics[1].observation_count =
                      vdb.points[PointOf(h)][1].observation_count + 1
           ELSE vdb'.points = vdb.points

\* No step lowers the observation_count of a stored record.
ObservationCountMonotone ==
    \A i \in 1..Len(PointIds) :
        (vdb.points[i] # <<>> /\ vdb'.points[i] # <<>>) =>
            vdb'.points[i][1].observation_count >=
                vdb.points[i][1].observation_count

\* C30: record_feedback with prompt_id 'new' fails and stores nothing when
\* prompt_text is missing, and otherwise creates one record under a fresh
\* id with observation_count 1 and success_rate 1 or 0; with another
\* prompt_id it fails with 'Prompt not found' and writes nothing when the
\* record does not exist, and otherwise writes metrics whose
\* observation_count is the stored value plus 1; a record's
\* observation_count never decreases.
C30_FeedbackCountsEveryObservation ==
    [][/\ \A h \in Handlers : NewRecordRule(h) /\ ExistingRecordRule(h)
       /\ ObservationCountMonotone]_vars

\* C31: on every update of an existing record each of success_rate,
\* avg_latency_ms and token_efficiency becomes 0.3 * observation + 0.7 * old,
\* for every supplied observation including 0; success_rate stays within
\* [0, 1] when the old value is.
C31_EveryMetricIsAnEma ==
    (call.made /\ call.op = "emaUpdate") =>
        LET old == call.input.oldMetrics
            outcome == call.input.outcome
            new == call.output
            Mean(observation, was) == (3 * observation + 7 * was) \div 10
        IN /\ new.success_rate =
                 Mean(IF outcome.success THEN 1000 ELSE 0, old.success_rate)
           /\ new.success_rate \in 0..1000
           /\ outcome.latency_ms # <<>> =>
                 new.avg_latency_ms = Mean(outcome.latency_ms[1], old.avg_latency_ms)
           /\ outcome.quality_score # <<>> =>
                 new.token_efficiency =
                     Mean(outcome.quality_score[1], old.token_efficiency)

\* C32: in sequential use of one instance, the history every
\* generateCandidate call of optimize reads holds exactly the entries of
\* the current run, none left by an earlier run, and its meta-prompt gets
\* the last five of them at most.
C32_MetaPromptOfCurrentRunOnly ==
    run[1].pc \in {"generate", "scoreCandidate"} =>
        /\ history = run[1].own
        /\ Len(run[1].metaHistory) <= 5
        /\ run[1].metaHistory = SliceLast(history, 5)
        /\ history[1] = [prompt |-> run[1].originalPrompt,
                         score |-> run[1].originalScore]

\* C32 witness: on an instance whose earlier run left two entries, the
\* sixth iteration's meta-prompt got five of the run's six entries.
C32_SixthIterationAfterEarlierRun ==
    /\ run[1].pc = "generate" /\ run[1].iterations = 6
    /\ Len(history) = 6 /\ Len(run[1].metaHistory) = 5
    /\ run[1].metaHistory[1] = history[2]

\* The prompt rec's run scored into scores[0]: the original after the
\* pattern and RAG rewrites.
EntryPrompt(rec) ==
    IF rec.ragImproved # <<>> THEN rec.ragImproved[1]
    ELSE LET pat == applyPatterns(rec.originalPrompt)
         IN IF Len(pat.applied) > 0 THEN pat.improved ELSE rec.originalPrompt

\* The prompt whose score is the i-th of rec's scores.
ScoredPrompt(rec, i) == IF i = 1 THEN EntryPrompt(rec) ELSE rec.own[i].prompt

\* C33: at the end of every iteration the current score is the maximum of
\* the scores so far and the current prompt is the earliest-scored prompt
\* attaining it; so the current score never decreases from one iteration
\* to the next and the final score is at least scores[0].
C33_CurrentIsEarliestBest ==
    /\ [](run[1].pc \in {"generate", "scoreCandidate", "done"} =>
            LET rec == run[1]
                first == CHOOSE i \in 1..Len(rec.scores) :
                            /\ rec.scores[i] = SeqMax(rec.scores)
                            /\ \A k \in 1..(i - 1) : rec.scores[k] < rec.scores[i]
            IN /\ rec.scores # <<>>
               /\ rec.currentScore = SeqMax(rec.scores)
               /\ rec.currentPrompt = ScoredPrompt(rec, first)
               /\ rec.currentScore >= rec.scores[1])
    /\ [][(run[1].pc = "scoreCandidate" /\ run'[1].pc \in {"generate", "done"}) =>
             run'[1].currentScore >= run[1].currentScore]_vars

\* C33 witness: a run returned after a first candidate that scored higher
\* and a second, different one that tied with it: the first is kept.
C33_TieKeptTheEarlier ==
    /\ run[1].pc = "done" /\ Len(run[1].scores) = 3
    /\ run[1].scores[2] > run[1].scores[1]
    /\ run[1].scores[3] = run[1].scores[2]
    /\ run[1].own[3].prompt # run[1].own[2].prompt
    /\ run[1].currentPrompt = run[1].own[2].prompt

\* C34: the target-score test is made only at the end of an iteration: when
\* the post-pattern/RAG prompt already scores targetScore or more and
\* maxIterations >= 1, optimize still generates and scores exactly one
\* candidate and returns iterations = 1; iterations = 0 is returned only
\* when maxIterations <= 0.
C34_TargetTestedAfterAnIteration ==
    LET rec == run[1]
        atTarget == rec.scores # <<>> /\ rec.scores[1] >= config.targetScore
    IN /\ (rec.pc \in {"generate", "scoreCandidate"} /\ atTarget) =>
             rec.iterations = 1 /\ Len(rec.scores) = 1
       /\ (rec.pc = "done" /\ atTarget /\ config.maxIterations >= 1) =>
             /\ rec.result[1].iterations = 1
             /\ Len(rec.scores) = 2 /\ Len(rec.own) = 2
       /\ (rec.pc = "done" /\ rec.result[1].iterations = 0) =>
             config.maxIterations <= 0

\* C34 witness: a run whose prompt was at the target before the loop
\* returned after one iteration whose candidate scored lower.
C34_OneIterationAtTarget ==
    /\ run[1].pc = "done" /\ config.maxIterations >= 1
    /\ run[1].scores[1] >= config.targetScore
    /\ run[1].result[1].iterations = 1
    /\ run[1].scores[2] < run[1].scores[1]
    /\ LastLine(run[1]).kind = "Target reached"

\* C35: pattern and RAG rewrites are adopted without a score comparison:
\* whenever at least one pattern fires, the prompt the loop starts from is
\* the rewritten text (as learnFromSimilar changed it, where it did),
\* whatever it scores; so a completed run may return a prompt other than
\* the original with a negative estimated_improvement.
C35_RewritesAdoptedUnscored ==
    LET rec == run[1]
        pat == applyPatterns(rec.originalPrompt)
    IN (rec.pc \in {"generate", "scoreCandidate", "done"}
        /\ Len(rec.scores) = 1 /\ Len(pat.applied) > 0) =>
           /\ rec.currentPrompt # rec.originalPrompt
           /\ rec.currentPrompt =
                 IF rec.ragImproved # <<>> THEN rec.ragImproved[1] ELSE pat.improved
           /\ rec.currentScore = rec.scores[1]

\* C35 witness: a run completed with the patterns' rewrite of its prompt,
\* which scored below the original.
C35_ReturnedWorseThanOriginal ==
    /\ run[1].pc = "done"
    /\ run[1].result[1].estimated_improvement < 0
    /\ run[1].result[1].optimized_prompt # run[1].result[1].original_prompt
    /\ run[1].result[1].optimized_prompt =
           applyPatterns(run[1].originalPrompt).improved
    /\ HasLine(run[1].improvements, "Applied pattern")

\* C36: applyPatterns reaches a fixed point in one pass: on the text it
\* returns no pattern's check holds, so a second application applies
\* nothing and returns its input.
C36_OnePassFixedPoint ==
    (call.made /\ call.op = "applyPatterns") =>
        /\ NoPatternHolds(call.output.improved)
        /\ applyPatterns(call.output.improved) =
              [improved |-> call.output.improved, applied |-> <<>>]

\* a is b with some of its members left out.
RECURSIVE IsSubsequence(_, _)
IsSubsequence(a, b) ==
    IF a = <<>> THEN TRUE
    ELSE IF b = <<>> THEN FALSE
    ELSE IF Head(a) = Head(b) THEN IsSubsequence(Tail(a), Tail(b))
    ELSE IsSubsequence(a, Tail(b))

\* The types of a list of suggestions.
Types(suggestions) == [i \in 1..Len(suggestions) |-> suggestions[i].type]

\* C37: for every prompt, the names applyPatterns applies are a
\* subsequence, in declaration order, of the types getSuggestions returns
\* for it, which are the patterns whose check holds on the prompt as passed
\* in.
C37_AppliedAmongSuggested ==
    /\ (call.made /\ call.op = "applyPatterns") =>
          IsSubsequence(call.output.applied, Types(getSuggestions(call.input)))
    /\ (call.made /\ call.op = "getSuggestions") =>
          /\ IsSubsequence(applyPatterns(call.input).applied, Types(call.output))
          /\ IsSubsequence(Types(call.output),
                           [i \in 1..Len(IMPROVEMENT_PATTERNS) |->
                               IMPROVEMENT_PATTERNS[i].name])
          /\ \A i \in 1..Len(IMPROVEMENT_PATTERNS) :
                PatternCheck(IMPROVEMENT_PATTERNS[i].name, call.input) <=>
                    \E k \in 1..Len(call.output) :
                        call.output[k].type = IMPROVEMENT_PATTERNS[i].name

\* C37 witness: all five patterns are suggested for the vague prompt, of
\* which applyPatterns skips add_output_format.
C37_SuggestedButSkipped ==
    /\ call.made /\ call.op = "getSuggestions" /\ call.input = <<P_VAGUE>>
    /\ Len(call.output) = 5
    /\ applyPatterns(call.input).applied =
           <<"add_structure", "add_chain_of_thought", "add_constraints",
             "add_context_request">>

\* C38: under any interleaving of record_feedback calls on one existing
\* id, every call that completes raises the stored observation_count by
\* one and folds its observation into the metrics stored at that moment,
\* so that after k completed calls the count has grown by exactly k and no
\* update is lost; no other step changes a stored record.
C38_NoFeedbackLost ==
    [][\A h \in Handlers :
         (call'[h] # call[h] /\ call'[h].prompt_id # "new") =>
             IF call[h].pc = "update" /\ call'[h].pc = "done"
             THEN /\ vdb.points[PointOf(h)] # <<>>
                  /\ vdb'.points =
                        [vdb.points EXCEPT ![PointOf(h)] =
                            <<UpdatedMetrics(vdb.points[PointOf(h)][1],
                                             call[h].success)>>]
             ELSE vdb'.points = vdb.points]_vars

\* C39: when several operations call initialize at once on a fresh
\* instance whose collection does not exist, and the store is reachable,
\* createCollection and the createPayloadIndex calls are issued by one of
\* the callers at most.
C39_CollectionCreatedByOneCaller ==
    (\A c \in Handlers : ~call[c].outage) =>
        Cardinality({c \in Handlers :
                        \E i \in 1..Len(call[c].calls) :
                            call[c].calls[i] = "createCollection"}) <= 1

====
